---- MODULE Spec2Model ----
(***************************************************************************)
(* A model of fixtest, a FIX protocol test harness:                        *)
(*   - the FIX message container and encoder   (fix/message.py)            *)
(*   - the FIX stream parser                   (fix/parser.py)             *)
(*   - the session engine                      (fix/protocol.py)           *)
(*   - the transport adapter and its factory   (fix/transport.py)          *)
(*   - the message queue                       (base/queue.py)             *)
(*   - the test controller and the driver      (base/controller.py,        *)
(*                                              base/runner.py)            *)
(* Byte strings are sequences of numbers 0..255.  A message (and a         *)
(* sub-message of a repeating group) is a sequence of entries, in          *)
(* insertion order, as the OrderedDict of BasicMessage keeps them.         *)
(***************************************************************************)
EXTENDS Integers, Sequences, FiniteSets, TLC

(***************************************************************************)
(* Bytes                                                                   *)
(***************************************************************************)
SOH == 1
EQUALS == 61
ZERO == 48

Digit(d) == ZERO + d

RECURSIVE Str(_)
\* str(n) of a natural number, as bytes
Str(n) == IF n < 10 THEN <<Digit(n)>> ELSE Str(n \div 10) \o <<Digit(n % 10)>>

\* '%03d' % n
Pad3(n) == IF n < 10 THEN <<ZERO, ZERO>> \o Str(n)
           ELSE IF n < 100 THEN <<ZERO>> \o Str(n)
           ELSE Str(n)

IsDigits(s) == Len(s) > 0 /\ \A i \in 1..Len(s) : s[i] \in ZERO..(ZERO + 9)

RECURSIVE ToInt(_)
\* int(s) of a string of decimal digits
ToInt(s) == IF Len(s) = 0 THEN 0
            ELSE 10 * ToInt(SubSeq(s, 1, Len(s) - 1)) + (s[Len(s)] - ZERO)

\* A search that starts at the beginning whatever start is: with it a
\* delimiter within a binary payload ends the field
FindFromStart(buf, byte, start) ==
    LET hits == {i \in 1..Len(buf) : buf[i] = byte}
    IN IF hits = {} THEN 0 ELSE CHOOSE i \in hits : \A j \in hits : i <= j

\* buf.find(byte, start): the 1-based position of the first occurrence at or
\* after the 0-based offset start, 0 when there is none (Python's -1)
Find(buf, byte, start) ==
    LET from == IF start < 0 THEN 1 ELSE start + 1
        hits == {i \in from..Len(buf) : buf[i] = byte}
    IN IF hits = {} THEN 0 ELSE CHOOSE i \in hits : \A j \in hits : i <= j

RECURSIVE ByteSum(_, _, _)
\* The sum of data[lo..hi]
ByteSum(data, lo, hi) ==
    IF lo > hi THEN 0
    ELSE IF lo = hi THEN data[lo]
    ELSE LET mid == (lo + hi) \div 2
         IN ByteSum(data, lo, mid) + ByteSum(data, mid + 1, hi)

\* checksum(data, starting_checksum): each byte is added modulo 256
checksum(data, starting_checksum) ==
    IF Len(data) = 0 THEN starting_checksum
    ELSE (starting_checksum + ByteSum(data, 1, Len(data))) % 256

(***************************************************************************)
(* The message container: BasicMessage / FIXMessage / OrderedDict          *)
(***************************************************************************)
Scalar(tag, s) == [tag |-> tag, k |-> "s", s |-> s, g |-> <<>>]
GroupList(tag, lst) == [tag |-> tag, k |-> "g", s |-> <<>>, g |-> lst]

Tags(m) == {m[i].tag : i \in 1..Len(m)}
Contains(m, tag) == tag \in Tags(m)
IndexOf(m, tag) == CHOOSE i \in 1..Len(m) : m[i].tag = tag
GetItem(m, tag) == m[IndexOf(m, tag)]

\* m[tag] = value: an existing key keeps its place, a new key goes last
SetItem(m, e) ==
    IF Contains(m, e.tag) THEN [m EXCEPT ![IndexOf(m, e.tag)] = e]
    ELSE Append(m, e)

\* del m[tag]
DelItem(m, tag) ==
    LET i == IndexOf(m, tag)
    IN SubSeq(m, 1, i - 1) \o SubSeq(m, i + 1, Len(m))

RECURSIVE Update(_, _)
\* m.update(source): source is a sequence of entries
Update(m, source) ==
    IF Len(source) = 0 THEN m
    ELSE Update(SetItem(m, Head(source)), Tail(source))

DefaultHeader == <<8, 9, 35, 49, 56>>

RECURSIVE Preinsert(_)
\* "for tag in header: self[tag] = ''"
Preinsert(header) ==
    IF Len(header) = 0 THEN <<>>
    ELSE SetItem(Preinsert(SubSeq(header, 1, Len(header) - 1)),
                 Scalar(header[Len(header)], <<>>))

\* FIXMessage(header_fields=header, source=source)
FIXMessage(header, source) == Update(Preinsert(header), source)

\* message.msg_type()
msg_type(m) == GetItem(m, 35).s

(***************************************************************************)
(* The encoder                                                             *)
(***************************************************************************)
_single_field(tag, value) == Str(tag) \o <<EQUALS>> \o value \o <<SOH>>

RECURSIVE _write_field(_), WriteItems(_), WriteSubgroups(_)
_write_field(e) ==
    IF e.k = "g"
    THEN _single_field(e.tag, Str(Len(e.g))) \o WriteSubgroups(e.g)
    ELSE _single_field(e.tag, e.s)
WriteItems(m) ==
    IF Len(m) = 0 THEN <<>> ELSE _write_field(Head(m)) \o WriteItems(Tail(m))
WriteSubgroups(lst) ==
    IF Len(lst) = 0 THEN <<>> ELSE WriteItems(Head(lst)) \o WriteSubgroups(Tail(lst))

\* A body that heeds no filter
BodyItemsUnfiltered(m, include, exclude) ==
    SelectSeq(m, LAMBDA e : e.tag \notin {8, 9, 10})

\* The fields to_binary writes in the body: message order, the include and
\* exclude filters, never 8, 9, 10.  include = {} stands for "not given".
BodyItems(m, include, exclude) ==
    SelectSeq(m, LAMBDA e : /\ (include = {} \/ e.tag \in include)
                            /\ e.tag \notin exclude
                            /\ e.tag \notin {8, 9, 10})

\* message.to_binary(): the bytes, and the message with 9 and 10 updated
to_binary(m, include, exclude) ==
    LET Encoded(mess) ==
            LET m9 == SetItem(m, Scalar(9, Str(Len(mess))))
                Signed(head, ck) ==
                    [data |-> head \o _single_field(10, ck),
                     msg |-> SetItem(IF Contains(m9, 10) THEN DelItem(m9, 10) ELSE m9,
                                     Scalar(10, ck))]
                Summed(head) == Signed(head, Pad3(checksum(head, 0)))
            IN Summed(_single_field(8, GetItem(m9, 8).s)
                        \o _single_field(9, GetItem(m9, 9).s) \o mess)
    IN Encoded(WriteItems(BodyItems(m, include, exclude)))

(***************************************************************************)
(* The parser: FIXParser                                                   *)
(***************************************************************************)
\* The parser's configuration: its constructor's keyword arguments
ParserConfig(header_fields, binary_fields, group_fields, max_length) ==
    [header_fields |-> header_fields, binary_fields |-> binary_fields,
     group_fields |-> group_fields, max_length |-> max_length]

DefaultMaxLength == 2048

\* FIXParser.__init__
NewParser(cfg) ==
    [is_parsing |-> FALSE,
     buffer |-> <<>>,
     is_receiving_data |-> FALSE,
     message |-> FIXMessage(cfg.header_fields, <<>>),
     checksum |-> 0,
     message_length |-> 0,
     binary_length |-> -1,
     binary_tag |-> 0,
     level_stack |-> <<>>,
     cfg |-> cfg]

\* A reset that keeps the buffer and the pending binary field: what C23
\* excludes
resetKeepsBuffer(p, flush_buffer) ==
    [p EXCEPT !.is_parsing = FALSE,
              !.message = FIXMessage(p.cfg.header_fields, <<>>),
              !.checksum = 0,
              !.message_length = 0,
              !.level_stack = <<>>]

\* FIXParser.reset
reset(p, flush_buffer) ==
    [p EXCEPT !.is_parsing = FALSE,
              !.message = FIXMessage(p.cfg.header_fields, <<>>),
              !.checksum = 0,
              !.message_length = 0,
              !.binary_length = -1,
              !.binary_tag = 0,
              !.level_stack = <<>>,
              !.buffer = IF flush_buffer THEN <<>> ELSE @]

\* FIXParser._parse_field: exc is "none" or the exception raised
_parse_field(buf) ==
    LET delim == Find(buf, EQUALS, 0)
        tag == SubSeq(buf, 1, delim - 1)
    IN IF delim = 0 \/ ~IsDigits(tag)
       THEN [exc |-> "FIXParserError", tag_id |-> 0, value |-> <<>>]
       ELSE [exc |-> "none", tag_id |-> ToInt(tag),
             value |-> SubSeq(buf, delim + 1, Len(buf))]

\* The comparison of _update_length: the tally against max_length
LengthTooLong(message_length, max_length) == message_length >= max_length

\* FIXParser._update_length
_update_length(p, field, tag_id) ==
    LET len == IF tag_id \notin {8, 9, 10}
               THEN p.message_length + Len(field) + 1
               ELSE p.message_length
    IN [p |-> [p EXCEPT !.message_length = len],
        exc |-> IF LengthTooLong(len, p.cfg.max_length)
                THEN "FIXLengthTooLongError" ELSE "none"]

\* FIXParser._update_checksum
_update_checksum(p, field, tag_id) ==
    IF tag_id # 10
    THEN [p EXCEPT !.checksum = checksum(field, p.checksum) + 1]
    ELSE p

\* FIXParser._update_binary
_update_binary(p, field, tag_id, value) ==
    IF p.binary_tag = 0
    THEN IF tag_id \in p.cfg.binary_fields
         THEN IF ~IsDigits(value)
              THEN [p |-> p, exc |-> "ValueError"]
              ELSE LET n == Len(Str(tag_id + 1)) + ToInt(value)
                   IN IF n > p.cfg.max_length
                      THEN [p |-> [p EXCEPT !.binary_length = n],
                            exc |-> "FIXLengthTooLongError"]
                      ELSE [p |-> [p EXCEPT !.binary_length = n,
                                            !.binary_tag = tag_id],
                            exc |-> "none"]
         ELSE [p |-> [p EXCEPT !.binary_length = -1], exc |-> "none"]
    ELSE IF tag_id # p.binary_tag + 1 \/ Len(field) # p.binary_length + 1
         THEN [p |-> p, exc |-> "FIXParserError"]
         ELSE [p |-> [p EXCEPT !.binary_tag = 0, !.binary_length = -1],
               exc |-> "none"]

\* A level of the level stack.  group is the level's current sub-message:
\* None, or the last sub-message of list.
Level(tag_id) == [tag_id |-> tag_id, list |-> <<>>, has_group |-> FALSE]

Top(stack) == stack[Len(stack)]
Pop(stack) == SubSeq(stack, 1, Len(stack) - 1)

\* A level that starts a sub-message with every member
StoreInGroupAlwaysNew(level, tag_id, value) ==
    [level EXCEPT !.list = Append(@, <<Scalar(tag_id, value)>>),
                  !.has_group = TRUE]

\* _update_field, a member tag of the innermost level: store into the current
\* sub-message, or start a new one
StoreInGroup(level, tag_id, value) ==
    IF ~level.has_group \/ Contains(Top(level.list), tag_id)
    THEN [level EXCEPT !.list = Append(@, <<Scalar(tag_id, value)>>),
                       !.has_group = TRUE]
    ELSE [level EXCEPT !.list[Len(level.list)] = SetItem(@, Scalar(tag_id, value))]

RECURSIVE PopLevels(_, _, _, _)
\* _update_field, the while loop that closes levels: level is the level just
\* popped, stack what is left below it
PopLevels(p, stack, level, tag_id) ==
    IF Len(stack) = 0
    THEN [p |-> [p EXCEPT !.level_stack = <<>>,
                          !.message = SetItem(@, GroupList(level.tag_id, level.list))],
          exc |-> "none"]
    ELSE LET parent_level == Top(stack)
         IN IF ~parent_level.has_group
            THEN \* parent_level['group'] is None: item assignment fails
                 [p |-> [p EXCEPT !.level_stack = stack], exc |-> "TypeError"]
            ELSE LET parent ==
                       [parent_level EXCEPT !.list[Len(parent_level.list)] =
                           SetItem(@, GroupList(level.tag_id, level.list))]
                     attached == [stack EXCEPT ![Len(stack)] = parent]
                 IN IF tag_id \in p.cfg.group_fields[parent.tag_id]
                    THEN [p |-> [p EXCEPT !.level_stack = attached], exc |-> "none"]
                    ELSE PopLevels(p, Pop(attached), parent, tag_id)

RECURSIVE _update_field(_, _, _)
\* FIXParser._update_field
_update_field(p, tag_id, value) ==
    LET Again(popped) == IF popped.exc # "none" THEN popped
                         ELSE _update_field(popped.p, tag_id, value)
    IN IF tag_id \in DOMAIN p.cfg.group_fields
       THEN [p |-> [p EXCEPT !.level_stack = Append(@, Level(tag_id))], exc |-> "none"]
       ELSE IF Len(p.level_stack) = 0
       THEN [p |-> [p EXCEPT !.message = SetItem(@, Scalar(tag_id, value))],
             exc |-> "none"]
       ELSE IF tag_id \in p.cfg.group_fields[Top(p.level_stack).tag_id]
       THEN [p |-> [p EXCEPT !.level_stack[Len(p.level_stack)] =
                                 StoreInGroup(@, tag_id, value)],
             exc |-> "none"]
       ELSE Again(PopLevels(p, Pop(p.level_stack), Top(p.level_stack), tag_id))

(***************************************************************************)
(* Time.  The clock counts ticks; TicksPerSec ticks make a second.         *)
(***************************************************************************)
TicksPerSec == 2
SecondsPerDay == 86400

\* timedelta.seconds of a difference of two clock readings
Seconds(delta) == (delta \div TicksPerSec) % SecondsPerDay

Pad2(n) == IF n < 10 THEN <<ZERO>> \o Str(n) ELSE Str(n)

\* The date the clock starts on, as strftime("%Y%m%d-") prints it
DatePrefix == <<50, 48, 49, 52, 48, 49, 48, 49, 45>>

\* fix.utils.format_time: "%Y%m%d-%H:%M:%S" of a clock reading
format_time(t) ==
    LET s == (t \div TicksPerSec) % SecondsPerDay
    IN DatePrefix \o Pad2(s \div 3600) \o <<58>> \o Pad2((s \div 60) % 60)
                  \o <<58>> \o Pad2(s % 60)

(***************************************************************************)
(* The message queue: MessageQueue                                         *)
(***************************************************************************)
\* MessageQueue.__init__
NewQueue == [items |-> <<>>, is_cancelled |-> FALSE]

\* A queue that hands out the newest message first: the order C3 excludes
QueueAddFirst(q, message) == [q EXCEPT !.items = <<message>> \o @]

\* MessageQueue.add
QueueAdd(q, message) == [q EXCEPT !.items = Append(@, message)]

\* MessageQueue.cancel
QueueCancel(q) == [q EXCEPT !.is_cancelled = TRUE]

\* The timeout test of wait_for_message's loop
WaitTimedOut(elapsed, timeout) == Seconds(elapsed) > timeout

\* The head of a loop that does not look at the cancellation: what C4 excludes
WaitChecksNoCancel(q, elapsed, timeout) ==
    IF WaitTimedOut(elapsed, timeout) THEN "FixtestTimeoutError" ELSE "none"

\* The checks at the head of wait_for_message's loop: the exception raised,
\* or "none" when the loop goes on to block in get()
WaitChecks(q, elapsed, timeout) ==
    IF WaitTimedOut(elapsed, timeout) THEN "FixtestTimeoutError"
    ELSE IF q.is_cancelled THEN "FixtestTestInterruptedError"
    ELSE "none"

\* The timeout of the blocking get() of wait_for_message, in ticks
GetTimeoutTicks == 1 * TicksPerSec

(***************************************************************************)
(* The session engine: FIXProtocol.  Its operations act on a record w of   *)
(* the objects a handler of the event loop reaches:                        *)
(*   w.parser, w.receiver, w.protocol, w.queue, w.calls, w.connected,      *)
(*   w.now (the clock), w.kind (the parser's receiver: the mock receiver   *)
(*   of the parser's tests or the session), and w.exc, the exception that  *)
(*   is propagating ("none" when there is none) with its reference tag.    *)
(***************************************************************************)
HEARTBEAT == <<48>>
TEST_REQUEST == <<49>>

\* The value no byte string equals
None == <<-1>>

LinkConfig(protocol_version, required_fields, sender_compid, target_compid, send_seqno, heartbeat) ==
    [protocol_version |-> protocol_version, required_fields |-> required_fields,
     sender_compid |-> sender_compid, target_compid |-> target_compid,
     send_seqno |-> send_seqno, heartbeat |-> heartbeat]

\* FIXProtocol.__init__ (the parser it builds is w.parser)
NewProtocol(link_config, now0) ==
    [link_config |-> link_config,
     heartbeat |-> link_config.heartbeat,
     filter_heartbeat |-> FALSE,
     testrequest_id |-> None,
     testrequest_time |-> 0,
     send_seqno |-> link_config.send_seqno,
     last_send_time |-> now0,
     received_seqno |-> 0,
     last_received_time |-> now0]

Raise(w, exc, ref) == [w EXCEPT !.exc = exc, !.ref = ref]

\* "tag not in message or len(str(message[tag])) == 0"
MissingField(message, tag) ==
    \/ ~Contains(message, tag)
    \/ (GetItem(message, tag).k = "s" /\ Len(GetItem(message, tag).s) = 0)

\* The first tag of required that is missing from message, 0 when none is
FirstMissing(message, required) ==
    LET bad == {i \in 1..Len(required) : MissingField(message, required[i])}
    IN IF bad = {} THEN 0
       ELSE required[CHOOSE i \in bad : \A j \in bad : i <= j]

\* Every required tag, 9 and 10 too
SendRequiredAll(required) == required

\* The required tags prepare_send_message checks: all but 9 and 10
SendRequired(required) == SelectSeq(required, LAMBDA tag : tag \notin {9, 10})

\* prepare_send_message, "self._send_seqno += 1": the value stored, given the
\* value loaded
NextSeqno(loaded) == loaded + 1

\* prepare_send_message, the stamping of tags 8, 34, 52
Stamp(protocol, message, send_time) ==
    Update(message, <<Scalar(8, protocol.link_config.protocol_version),
                      Scalar(34, Str(protocol.send_seqno)),
                      Scalar(52, format_time(send_time))>>)

\* FIXProtocol.prepare_send_message, run without interruption
prepare_send_message(w, message) ==
    LET Checked(w1, m, missing) ==
            IF missing # 0
            THEN [w |-> Raise(w1, "FIXDataError", missing), message |-> m]
            ELSE [w |-> [w1 EXCEPT !.protocol.last_send_time = w.now], message |-> m]
        Stamped(w1, m) ==
            Checked(w1, m,
                    FirstMissing(m, SendRequired(w.protocol.link_config.required_fields)))
        Counted(w1) == Stamped(w1, Stamp(w1.protocol, message, w.now))
    IN Counted([w EXCEPT !.protocol.send_seqno = NextSeqno(@)])

\* reactor.callFromThread(self.transport.write, data); message is kept beside
\* the bytes it was encoded to
PostWrite(calls, data, message) ==
    Append(calls, [fn |-> "write", data |-> data, message |-> message])

\* FIXTransport.send_message, run without interruption
send_message(w, message) ==
    LET Written(w1, bin) == [w1 EXCEPT !.calls = PostWrite(@, bin.data, bin.msg)]
        Prepared(prep) ==
            IF prep.w.exc # "none" \/ ~prep.w.connected THEN prep.w
            ELSE Written(prep.w, to_binary(prep.message, {}, {}))
    IN Prepared(prepare_send_message(w, message))

\* A transport that queues whatever it is passed: what C14 excludes
QueuedAll(message) == TRUE

\* The test of FIXTransport.on_message_received: what goes to the queue
Queued(message) == msg_type(message) \notin {HEARTBEAT, TEST_REQUEST}

\* FIXTransport.on_message_received
TransportOnMessageReceived(w, message) ==
    LET w1 == [w EXCEPT !.forwarded = Append(@, message)]
    IN IF Queued(message)
       THEN [w1 EXCEPT !.queue = QueueAdd(@, message)]
       ELSE w1

\* A reply that bears the peer's comp ids as they came: what C15 excludes
HeartbeatReplySwapped(protocol, message) ==
    FIXMessage(DefaultHeader,
               <<Scalar(35, HEARTBEAT), GetItem(message, 112),
                 Scalar(49, protocol.link_config.target_compid),
                 Scalar(56, protocol.link_config.sender_compid)>>)

\* on_message_received, the Heartbeat that answers a TestRequest
HeartbeatReply(protocol, message) ==
    FIXMessage(DefaultHeader,
               <<Scalar(35, HEARTBEAT), GetItem(message, 112),
                 Scalar(49, protocol.link_config.sender_compid),
                 Scalar(56, protocol.link_config.target_compid)>>)

\* A session that forwards every message, whatever its flag: what C13 excludes
ForwardedAlways(protocol, message) == TRUE

\* on_message_received, the test that forwards a message to the transport
Forwarded(protocol, message) ==
    ~protocol.filter_heartbeat \/ msg_type(message) \notin {HEARTBEAT, TEST_REQUEST}

\* A validation that looks at the checksum before the length: the order C12
\* excludes
ValidateChecksumFirst(protocol, message, message_length, cksum) ==
    LET missing == FirstMissing(message, protocol.link_config.required_fields)
    IN IF missing # 0 THEN <<"FIXDataError", missing>>
       ELSE IF GetItem(message, 8).s # protocol.link_config.protocol_version
            THEN <<"FIXDataError", 8>>
       ELSE IF cksum # ToInt(GetItem(message, 10).s) THEN <<"FIXDataError", 10>>
       ELSE IF message_length # ToInt(GetItem(message, 9).s) THEN <<"FIXDataError", 9>>
       ELSE <<"none", 0>>

\* A validation that passes every message
ValidateNothing(protocol, message, message_length, cksum) == <<"none", 0>>

\* on_message_received, the validation: <<exception, reference tag>>
Validate(protocol, message, message_length, cksum) ==
    LET missing == FirstMissing(message, protocol.link_config.required_fields)
    IN IF missing # 0 THEN <<"FIXDataError", missing>>
       ELSE IF ~Contains(message, 8) THEN <<"KeyError", 8>>
       ELSE IF GetItem(message, 8).s # protocol.link_config.protocol_version
                 \/ GetItem(message, 8).k # "s"
            THEN <<"FIXDataError", 8>>
       ELSE IF ~Contains(message, 9) THEN <<"KeyError", 9>>
       ELSE IF ~IsDigits(GetItem(message, 9).s) THEN <<"ValueError", 9>>
       ELSE IF message_length # ToInt(GetItem(message, 9).s) THEN <<"FIXDataError", 9>>
       ELSE IF ~Contains(message, 10) THEN <<"KeyError", 10>>
       ELSE IF ~IsDigits(GetItem(message, 10).s) THEN <<"ValueError", 10>>
       ELSE IF cksum # ToInt(GetItem(message, 10).s) THEN <<"FIXDataError", 10>>
       ELSE <<"none", 0>>

\* A session that takes any Heartbeat for the answer
ClearOnAnyHeartbeat(protocol, message) ==
    IF msg_type(message) = HEARTBEAT
    THEN [protocol EXCEPT !.testrequest_time = 0, !.testrequest_id = None]
    ELSE protocol

\* on_message_received, after the validation: the pending TestRequest
ClearTestRequest(protocol, message) ==
    IF msg_type(message) = HEARTBEAT
       /\ (IF Contains(message, 112) THEN GetItem(message, 112).s ELSE <<>>)
            = protocol.testrequest_id
    THEN [protocol EXCEPT !.testrequest_time = 0, !.testrequest_id = None]
    ELSE protocol

\* FIXProtocol.on_message_received
ProtocolOnMessageReceived(w, message, message_length, cksum) ==
    LET Replied(w2) ==
            IF w2.exc # "none" THEN w2
            ELSE IF Forwarded(w2.protocol, message)
                 THEN TransportOnMessageReceived(w2, message)
                 ELSE w2
        Cleared(w1) ==
            Replied(IF msg_type(message) # TEST_REQUEST THEN w1
                    ELSE IF ~Contains(message, 112) THEN Raise(w1, "KeyError", 112)
                    ELSE send_message(w1, HeartbeatReply(w1.protocol, message)))
        Timed(w0) ==
            IF ~Contains(message, 35) THEN Raise(w0, "KeyError", 35)
            ELSE Cleared([w0 EXCEPT !.protocol = ClearTestRequest(@, message)])
        Validated(v) ==
            IF v[1] # "none" THEN Raise(w, v[1], v[2])
            ELSE Timed([w EXCEPT !.protocol.last_received_time = w.now])
    IN Validated(Validate(w.protocol, message, message_length, cksum))

\* MockFIXReceiver.on_message_received of the parser's tests
MockOnMessageReceived(w, message, message_length, cksum) ==
    [w EXCEPT !.receiver.log =
        Append(@, [message |-> message, message_length |-> message_length,
                   checksum |-> cksum])]

\* self._receiver.on_message_received
ReceiverOnMessage(w, message, message_length, cksum) ==
    IF w.kind = "mock"
    THEN MockOnMessageReceived(w, message, message_length, cksum)
    ELSE ProtocolOnMessageReceived(w, message, message_length, cksum)

\* self._receiver.on_error_received: both receivers raise the error
ReceiverOnError(w, err) ==
    Raise([w EXCEPT !.receiver.errors = Append(@, err)], err, 0)

(***************************************************************************)
(* The parser's loop: FIXParser.on_data_received                           *)
(***************************************************************************)
\* The condition of the while loop
LoopCond(p) ==
    Len(p.buffer) > 0 /\ Find(p.buffer, SOH, p.binary_length + 1) # 0

\* "if self._binary_length > 0 and len(self._buffer) < self._binary_length"
BinaryIncomplete(p) ==
    p.binary_length > 0 /\ Len(p.buffer) < p.binary_length

\* A check that lets a message start with any tag: what C22 excludes
StartCheckAnyTag(is_parsing, tag_id) ==
    IF tag_id = 8 /\ is_parsing
    THEN [exc |-> "FIXParserError", is_parsing |-> is_parsing]
    ELSE [exc |-> "none", is_parsing |-> TRUE]

\* The check of the start of a message: the exception, and is_parsing after it
StartCheck(is_parsing, tag_id) ==
    IF tag_id = 8
    THEN IF is_parsing THEN [exc |-> "FIXParserError", is_parsing |-> is_parsing]
         ELSE [exc |-> "none", is_parsing |-> TRUE]
    ELSE IF ~is_parsing THEN [exc |-> "FIXParserError", is_parsing |-> is_parsing]
         ELSE [exc |-> "none", is_parsing |-> is_parsing]

\* One turn of the while loop, from "break up the field" on
LoopBody(w) ==
    LET delim == Find(w.parser.buffer, SOH, w.parser.binary_length + 1)
        Reset(d) == IF d.exc # "none" THEN d
                    ELSE [d EXCEPT !.parser = reset(@, FALSE)]
        Deliver(p) ==
            Reset(ReceiverOnMessage([w EXCEPT !.parser = p], p.message,
                                    p.message_length, p.checksum))
        Fails(p, exc) == Raise([w EXCEPT !.parser = p], exc, 0)
        Stored(uf, tag_id) ==
            IF uf.exc # "none" THEN Fails(uf.p, uf.exc)
            ELSE IF tag_id # 10 THEN [w EXCEPT !.parser = uf.p]
            ELSE Deliver(uf.p)
        Binary(ub, f) ==
            IF ub.exc # "none" THEN Fails(ub.p, ub.exc)
            ELSE Stored(_update_field(ub.p, f.tag_id, f.value), f.tag_id)
        Counted(ul, field, f) ==
            IF ul.exc # "none" THEN Fails(ul.p, ul.exc)
            ELSE Binary(_update_binary(_update_checksum(ul.p, field, f.tag_id),
                                       field, f.tag_id, f.value), f)
        Started(p1, st, field, f) ==
            IF st.exc # "none" THEN Fails(p1, st.exc)
            ELSE Counted(_update_length([p1 EXCEPT !.is_parsing = st.is_parsing],
                                        field, f.tag_id), field, f)
        Parsed(p1, field, f) ==
            IF f.exc # "none" THEN Fails(p1, f.exc)
            ELSE Started(p1, StartCheck(p1.is_parsing, f.tag_id), field, f)
        Split(p1, field) == Parsed(p1, field, _parse_field(field))
    IN Split([w.parser EXCEPT !.buffer = SubSeq(@, delim + 1, Len(@))],
             SubSeq(w.parser.buffer, 1, delim - 1))

RECURSIVE ParserLoop(_)
\* The while loop: it ends when the buffer holds no whole field, or with an
\* exception in w.exc
ParserLoop(w) ==
    IF w.exc # "none" \/ ~LoopCond(w.parser) \/ BinaryIncomplete(w.parser) THEN w
    ELSE ParserLoop(LoopBody(w))

\* The errors on_data_received catches and reports to the receiver
Caught == {"FIXLengthTooLongError", "FIXParserError"}

\* FIXParser.on_data_received
on_data_received(w, data) ==
    LET Finally(handled) == [handled EXCEPT !.parser.is_receiving_data = FALSE]
        Handled(looped) ==
            IF looped.exc \in Caught
            THEN ReceiverOnError([looped EXCEPT !.parser = reset(@, TRUE),
                                                !.exc = "none"],
                                 looped.exc)
            ELSE looped
    IN IF w.parser.is_receiving_data
       THEN [w EXCEPT !.parser.buffer = @ \o data]
       ELSE Finally(Handled(ParserLoop([w EXCEPT !.parser.is_receiving_data = TRUE,
                                                 !.parser.buffer = @ \o data])))

(***************************************************************************)
(* The heartbeat timer: FIXProtocol.on_timer_tick_received                 *)
(***************************************************************************)
\* "(now - self._testrequest_time).seconds > 2*self.heartbeat"
TestRequestTimedOut(protocol, now0) ==
    /\ protocol.testrequest_id # None
    /\ Seconds(now0 - protocol.testrequest_time) > 2 * protocol.heartbeat

HeartbeatDue(protocol, now0) ==
    Seconds(now0 - protocol.last_send_time) > protocol.heartbeat

TestRequestDue(protocol, now0) ==
    Seconds(now0 - protocol.last_received_time) > protocol.heartbeat

HeartbeatMessage(protocol) ==
    FIXMessage(DefaultHeader,
               <<Scalar(35, HEARTBEAT),
                 Scalar(49, protocol.link_config.sender_compid),
                 Scalar(56, protocol.link_config.target_compid)>>)

\* "TR{0}".format(format_time(now))
TestRequestId(now0) == <<84, 82>> \o format_time(now0)

TestRequestMessage(protocol, testrequest_id) ==
    FIXMessage(DefaultHeader,
               <<Scalar(35, TEST_REQUEST), Scalar(112, testrequest_id),
                 Scalar(49, protocol.link_config.sender_compid),
                 Scalar(56, protocol.link_config.target_compid)>>)

\* FIXProtocol.on_timer_tick_received, run without interruption
on_timer_tick_received(w) ==
    LET Request(w2) ==
            send_message(w2, TestRequestMessage(w2.protocol, w2.protocol.testrequest_id))
        \* last_received_time is read after the Heartbeat has been sent
        Beaten(w1) ==
            IF w1.exc # "none" \/ ~TestRequestDue(w1.protocol, w.now) THEN w1
            ELSE Request([w1 EXCEPT !.protocol.testrequest_time = w.now,
                                    !.protocol.testrequest_id = TestRequestId(w.now)])
    IN IF w.protocol.heartbeat <= 0 THEN w
       ELSE IF TestRequestTimedOut(w.protocol, w.now)
            THEN Raise(w, "FIXTimeoutError", 0)
       ELSE Beaten(IF HeartbeatDue(w.protocol, w.now)
                   THEN send_message(w, HeartbeatMessage(w.protocol))
                   ELSE w)

(***************************************************************************)
(* State                                                                   *)
(***************************************************************************)
VARIABLES
    parser,     \* the FIXParser of the connection
    receiver,   \* what the parser's receiver has been told: log, errors
    kind,       \* the parser's receiver: "mock" or "protocol"
    protocol,   \* the FIXProtocol of the connection
    queue,      \* the MessageQueue of the connection's transport
    calls,      \* the calls posted to the event loop with callFromThread
    connected,  \* FIXTransport.transport is not None
    open,       \* the socket is open
    forwarded,  \* the messages passed to FIXTransport.on_message_received
    wire,       \* what has been written to the socket, in order
    now,        \* the clock, in ticks
    raised,     \* the exception that left the last handler: exc, ref
    feed,       \* the byte stream being fed to the parser, and what is left
    test,       \* the test thread: where it is, and its local variables
    loop,       \* the event loop's thread: the handler it is in
    lc_task,    \* the heartbeat timer of the transport
    results,    \* how the calls of the test thread ended, in order
    hist,       \* history: what arrived, what was sent, what was cancelled
    ctl         \* the controller, its nodes and the reactor

vars == <<parser, receiver, kind, protocol, queue, calls, connected, open,
          forwarded, wire, now, raised, feed, test, loop, lc_task, results,
          hist, ctl>>

\* The objects a handler reaches, as the record the operations act on
World ==
    [parser |-> parser, receiver |-> receiver, kind |-> kind,
     protocol |-> protocol, queue |-> queue, calls |-> calls,
     connected |-> connected, forwarded |-> forwarded, now |-> now,
     exc |-> "none", ref |-> 0]

\* The state a handler leaves
Becomes(w) ==
    /\ parser' = w.parser
    /\ receiver' = w.receiver
    /\ protocol' = w.protocol
    /\ queue' = w.queue
    /\ calls' = w.calls
    /\ forwarded' = w.forwarded
    /\ raised' = [exc |-> w.exc, ref |-> w.ref]

NewReceiver == [log |-> <<>>, errors |-> <<>>]
NoException == [exc |-> "none", ref |-> 0]

\* A thread that is in no call
Idle ==
    [pc |-> "idle", start |-> 0, timeout |-> 0, deadline |-> 0,
     began_cancelled |-> FALSE, cancel_at |-> -1,
     reg |-> 0, message |-> <<>>, send_time |-> 0, k0 |-> 0, success |-> "unbound"]

NoTimer == [set |-> FALSE, running |-> FALSE, next |-> 0]
NoHistory ==
    [arrived |-> <<>>, nrecv |-> 0, cancelled |-> FALSE, ncalls |-> 0,
     sent |-> <<>>, high |-> 0, off_loop |-> FALSE,
     last |-> [at |-> -1, wrong |-> {}], before |-> <<>>, posted |-> <<>>]
\* TestCaseController.__init__, with the nodes of its subclass and the reactor:
\* one client node (its queue is the variable queue) and one server factory
NoController ==
    [phase |-> "not-started", test_status |-> "test: not-started",
     exit_value |-> 1, is_cancelled |-> FALSE,
     client |-> [started |-> FALSE, connected |-> FALSE, error |-> FALSE],
     servers |-> <<>>, running |-> TRUE, cancel_in |-> "none", exc |-> "none"]
NoFeed ==
    [case |-> [cfg |-> <<>>, msgs |-> <<>>, stream |-> <<>>], rest |-> <<>>,
     ncalls |-> 0, bytewise |-> TRUE, escaped |-> {}]

(***************************************************************************)
(* Byte strings of the tests                                               *)
(***************************************************************************)
FIX42 == <<70, 73, 88, 46, 52, 46, 50>>

\* The link configuration of the session's tests, with a heartbeat interval
TestLinkConfig(heartbeat) ==
    LinkConfig(FIX42, <<8, 9, 35>>, <<115, 101, 110, 100, 101, 114>>, <<116, 97, 114, 103, 101, 116>>, 0, heartbeat)

\* The parser a session builds from the link configuration of its tests
SessionParserConfig == ParserConfig(<<8, 9, 35>>, {}, <<>>, DefaultMaxLength)

(***************************************************************************)
(* The parser fed with a byte stream, as the parser's tests feed it        *)
(***************************************************************************)
\* The parser configurations of the parser's tests
CfgPlain == ParserConfig(<<8, 9>>, {}, <<>>, DefaultMaxLength)
CfgBinary == ParserConfig(<<8, 9>>, {99}, <<>>, DefaultMaxLength)
CfgNested ==
    ParserConfig(<<8, 9>>, {},
                 (100 :> {101, 102, 200}) @@ (200 :> {201, 202}),
                 DefaultMaxLength)
CfgGroupedBinary ==
    ParserConfig(<<8, 9>>, {99}, (200 :> {201, 202, 99, 100}), DefaultMaxLength)

\* FIXMessage(header_fields=[8, 9], source=[(8, 'FIX.4.2')] + source)
Msg(source) == FIXMessage(<<8, 9>>, <<Scalar(8, FIX42)>> \o source)

\* Messages: scalars only
MsgPlain == Msg(<<Scalar(35, <<65>>), Scalar(919, <<116, 104, 105, 115>>), Scalar(955, <<116, 104, 97, 116>>)>>)
MsgShort == Msg(<<Scalar(35, <<69>>), Scalar(99, <<102, 111, 114, 115, 111, 111, 116, 104>>)>>)
MsgEmptyValue == Msg(<<Scalar(35, <<>>), Scalar(58, <<97, 61, 98>>)>>)
\* a message whose bytes before tag 10 add up to a multiple of 256: 10=000
MsgZeroSum == Msg(<<Scalar(35, <<65>>), Scalar(58, <<48, 70>>)>>)
\* a binary field whose payload holds a delimiter and an equals sign
MsgBinary ==
    Msg(<<Scalar(35, <<65>>), Scalar(99, <<53>>), Scalar(100, <<49, SOH, 61, 52, SOH>>),
          Scalar(919, <<116, 104, 105, 115>>)>>)
\* nested groups, as test_multiple_nested_groups
MsgNested ==
    Msg(<<GroupList(100,
            << <<Scalar(101, <<97>>), Scalar(102, <<98>>),
                 GroupList(200, << <<Scalar(201, <<97, 98, 99>>), Scalar(202, <<100, 101, 102>>)>>,
                                   <<Scalar(201, <<122, 122, 122>>)>> >>)>>,
               <<Scalar(101, <<99>>), Scalar(102, <<100>>)>> >>),
          Scalar(955, <<116, 104, 97, 116>>)>>)
\* a sub-message that starts with a nested group
MsgNestedFirst ==
    Msg(<<Scalar(35, <<65>>),
          GroupList(100, << <<GroupList(200, << <<Scalar(201, <<97, 98, 99>>)>> >>),
                              Scalar(101, <<97>>)>> >>)>>)
\* a field of the message, after a group, whose tag the group declares too
MsgTrailingMember ==
    Msg(<<Scalar(35, <<65>>), GroupList(100, << <<Scalar(101, <<97>>)>> >>),
          Scalar(102, <<98>>)>>)
\* binary fields in a group, as test_grouped_binary_fields
MsgGroupedBinary ==
    Msg(<<Scalar(35, <<65>>),
          GroupList(200,
            << <<Scalar(201, <<97, 97, 98, 99>>), Scalar(99, <<53>>), Scalar(100, <<97, 98, 99, 100, 101>>)>>,
               <<Scalar(201, <<122, 122, 122, 97, 97>>), Scalar(202, <<109, 121, 110, 97, 109, 101>>), Scalar(99, <<53>>),
                 Scalar(100, <<122, SOH, 116, 111, 112>>)>> >>),
          Scalar(955, <<116, 104, 97, 116>>)>>)

Encode(m) == to_binary(m, {}, {}).data

\* What is fed: a configuration, the messages the stream encodes, the stream
Case(cfg, msgs) ==
    [cfg |-> cfg, msgs |-> msgs,
     stream |-> IF Len(msgs) = 1 THEN Encode(msgs[1])
                ELSE Encode(msgs[1]) \o Encode(msgs[2])]

Cases ==
    { Case(CfgPlain, <<MsgPlain>>),
      Case(CfgPlain, <<MsgShort, MsgPlain>>),
      Case(CfgPlain, <<MsgEmptyValue>>),
      Case(CfgPlain, <<MsgZeroSum>>),
      Case(CfgBinary, <<MsgBinary>>),
      Case(CfgBinary, <<MsgBinary, MsgShort>>),
      Case(CfgNested, <<MsgNested>>),
      Case(CfgNested, <<MsgNestedFirst>>),
      Case(CfgNested, <<MsgTrailingMember>>),
      Case(CfgGroupedBinary, <<MsgGroupedBinary>>) }

\* The most calls of on_data_received that feed counts
MaxCalls == 2

\* A parser with the mock receiver of the parser's tests, nothing fed yet
MockWorld(cfg) ==
    [parser |-> NewParser(cfg), receiver |-> NewReceiver, kind |-> "mock",
     protocol |-> NewProtocol(TestLinkConfig(0), 0), queue |-> NewQueue,
     calls |-> <<>>, connected |-> FALSE, forwarded |-> <<>>, now |-> 0,
     exc |-> "none", ref |-> 0]

\* What does not take part in a specification
NoThreads ==
    /\ test = Idle
    /\ loop = Idle
    /\ lc_task = NoTimer
    /\ results = <<>>

InitParser ==
    /\ \E c \in Cases :
         /\ parser = NewParser(c.cfg)
         /\ feed = [NoFeed EXCEPT !.case = c, !.rest = c.stream]
    /\ receiver = NewReceiver
    /\ kind = "mock"
    /\ protocol = NewProtocol(TestLinkConfig(0), 0)
    /\ queue = NewQueue
    /\ calls = <<>>
    /\ connected = FALSE
    /\ open = FALSE
    /\ forwarded = <<>>
    /\ wire = <<>>
    /\ now = 0
    /\ raised = NoException
    /\ NoThreads
    /\ hist = NoHistory
    /\ ctl = NoController

\* parser.on_data_received(data) with the next n bytes of the stream
Feed(n) ==
    LET Fed(w) ==
            /\ Becomes(w)
            /\ feed' = [feed EXCEPT !.rest = SubSeq(@, n + 1, Len(@)),
                                    !.ncalls = IF @ < MaxCalls THEN @ + 1 ELSE @,
                                    !.bytewise = @ /\ n = 1,
                                    !.escaped = IF w.exc = "none" THEN @
                                                ELSE @ \cup {w.exc}]
    IN /\ n \in 1..Len(feed.rest)
       /\ Fed(on_data_received(World, SubSeq(feed.rest, 1, n)))
       /\ UNCHANGED <<kind, connected, open, wire, now, test, loop, lc_task,
                      results, hist, ctl>>

NextParser == \E n \in 1..Len(feed.rest) : Feed(n)

SpecParser == InitParser /\ [][NextParser]_vars

(***************************************************************************)
(* A connection: the event loop receives data, the test thread waits for   *)
(* messages, the queue may be cancelled at any time.  Computation takes no *)
(* time: the clock advances only while every thread waits.                 *)
(***************************************************************************)
MaxTime == 4        \* the clock stops here
MaxInbound == 1     \* the most calls of dataReceived
MaxWaits == 2       \* the most calls the test thread makes
Timeouts == {0, 1}

K1 == <<49>>
K2 == <<50>>

\* A message of the peer: sender and target are the session's, swapped
PeerMessage(type, fields) ==
    FIXMessage(DefaultHeader,
               <<Scalar(8, FIX42), Scalar(35, type), Scalar(49, <<116, 97, 114, 103, 101, 116>>),
                 Scalar(56, <<115, 101, 110, 100, 101, 114>>)>> \o fields)

AppMessage(k) == PeerMessage(<<68>>, <<Scalar(11, k)>>)
InTestRequest == PeerMessage(TEST_REQUEST, <<Scalar(112, <<84, 49>>)>>)

\* The bytes of a message with the last digit of its checksum changed
Corrupt(data) ==
    [data EXCEPT ![Len(data) - 1] = IF @ = ZERO THEN ZERO + 1 ELSE ZERO]

\* What one call of dataReceived may bring, with the keys (tag 11) of the
\* valid application messages in it, in the order of their bytes
Inbound ==
    { [bytes |-> Encode(AppMessage(K1)), keys |-> <<K1>>],
      [bytes |-> Encode(AppMessage(K2)) \o Encode(AppMessage(K1)), keys |-> <<K2, K1>>],
      [bytes |-> Encode(InTestRequest), keys |-> <<>>],
      [bytes |-> Corrupt(Encode(AppMessage(K1))), keys |-> <<>>] }

InitLink ==
    /\ parser = NewParser(SessionParserConfig)
    /\ receiver = NewReceiver
    /\ kind = "protocol"
    \* create_transport: "protocol.filter_heartbeat = self.filter_heartbeat"
    /\ protocol = [NewProtocol(TestLinkConfig(0), 0) EXCEPT !.filter_heartbeat = TRUE]
    /\ queue = NewQueue
    /\ calls = <<>>
    /\ connected = TRUE
    /\ open = TRUE
    /\ forwarded = <<>>
    /\ wire = <<>>
    /\ now = 0
    /\ raised = NoException
    /\ feed = NoFeed
    /\ NoThreads
    /\ hist = NoHistory
    /\ ctl = NoController

\* FIXTransport.dataReceived, called by the event loop; an exception that
\* leaves it makes the event loop drop the connection
DataReceived(d) ==
    LET Received(w) ==
            /\ Becomes(w)
            /\ open' = (w.exc = "none")
            /\ hist' = [hist EXCEPT !.nrecv = @ + 1, !.arrived = @ \o d.keys]
    IN /\ open
       /\ hist.nrecv < MaxInbound
       /\ Received(on_data_received(World, d.bytes))
       /\ UNCHANGED <<kind, connected, wire, now, feed, test, loop, lc_task,
                      results, ctl>>

\* The event loop runs the next call posted with callFromThread
RunCall ==
    /\ loop.pc = "idle"
    /\ calls # <<>>
    /\ ctl.running
    /\ calls' = Tail(calls)
    /\ wire' = IF Head(calls).fn = "write" /\ open THEN Append(wire, Head(calls))
               ELSE wire
    /\ lc_task' = IF Head(calls).fn = "start"
                  THEN [lc_task EXCEPT !.running = TRUE,
                                       !.next = now + Head(calls).interval * TicksPerSec]
                  ELSE lc_task
    /\ ctl' = IF Head(calls).fn = "stop" THEN [ctl EXCEPT !.running = FALSE]
              ELSE IF Head(calls).fn = "_start_client"
                   THEN [ctl EXCEPT !.client.started = TRUE]
              ELSE ctl
    /\ UNCHANGED <<parser, receiver, kind, protocol, queue, connected, open,
                   forwarded, now, raised, feed, test, loop, results, hist>>

\* FIXTransport.cancel: MessageQueue.cancel; a waiter blocked on the empty
\* queue before its timeout has expired is noted
TransportCancel ==
    /\ queue' = QueueCancel(queue)
    /\ hist' = [hist EXCEPT !.cancelled = TRUE]
    /\ test' = IF /\ test.pc = "blocked"
                  /\ queue.items = <<>>
                  /\ test.cancel_at = -1
                  /\ now - test.start < test.timeout * TicksPerSec
               THEN [test EXCEPT !.cancel_at = now]
               ELSE test
    /\ UNCHANGED <<parser, receiver, kind, protocol, calls, connected, open,
                   forwarded, wire, now, raised, feed, loop, lc_task, results>>

\* The transport of a connection is cancelled
Cancel == TransportCancel /\ UNCHANGED ctl

\* How a call of wait_for_message ended
WaitResult(outcome, value) ==
    [call |-> "wait_for_message", outcome |-> outcome, value |-> value,
     timeout |-> test.timeout, elapsed |-> now - test.start,
     began_cancelled |-> test.began_cancelled,
     cancel_blocked |-> test.cancel_at # -1,
     since_cancel |-> IF test.cancel_at = -1 THEN 0 ELSE now - test.cancel_at,
     cancelled |-> queue.is_cancelled]

\* The key of a message: its tag 11
Key(message) == IF Contains(message, 11) THEN GetItem(message, 11).s ELSE <<>>

\* wait_for_message is called: "start = datetime.datetime.now()"
WaitBegin(timeout) ==
    /\ test.pc = "idle"
    /\ hist.ncalls < MaxWaits
    /\ test' = [Idle EXCEPT !.pc = "check", !.start = now, !.timeout = timeout,
                            !.began_cancelled = queue.is_cancelled]
    /\ hist' = [hist EXCEPT !.ncalls = @ + 1]
    /\ UNCHANGED <<parser, receiver, kind, protocol, queue, calls, connected,
                   open, forwarded, wire, now, raised, feed, loop, lc_task,
                   results, ctl>>

\* The head of the loop of wait_for_message: the two raises
WaitCheck ==
    LET Checked(exc) ==
            IF exc = "none"
            THEN test' = [test EXCEPT !.pc = "get"] /\ UNCHANGED results
            ELSE test' = Idle /\ results' = Append(results, WaitResult(exc, <<>>))
    IN /\ test.pc = "check"
       /\ Checked(WaitChecks(queue, now - test.start, test.timeout))
       /\ UNCHANGED <<parser, receiver, kind, protocol, queue, calls, connected,
                      open, forwarded, wire, now, raised, feed, loop, lc_task,
                      hist, ctl>>

\* wait_for_message returns the message get() returned
WaitReturn ==
    /\ queue' = [queue EXCEPT !.items = Tail(@)]
    /\ results' = Append(results, WaitResult("message", Key(Head(queue.items))))
    /\ test' = Idle

\* "message = self.get(True, timeout=1.0)": a message is there, or the
\* thread blocks
WaitGet ==
    /\ test.pc = "get"
    /\ IF queue.items # <<>> THEN WaitReturn
       ELSE /\ test' = [test EXCEPT !.pc = "blocked",
                                    !.deadline = now + GetTimeoutTicks]
            /\ UNCHANGED <<queue, results>>
    /\ UNCHANGED <<parser, receiver, kind, protocol, calls, connected, open,
                   forwarded, wire, now, raised, feed, loop, lc_task, hist, ctl>>

\* The blocked get() returns a message that was added
WaitWake ==
    /\ test.pc = "blocked"
    /\ queue.items # <<>>
    /\ WaitReturn
    /\ UNCHANGED <<parser, receiver, kind, protocol, calls, connected, open,
                   forwarded, wire, now, raised, feed, loop, lc_task, hist, ctl>>

\* The blocked get() raises Empty after its timeout: "except queue.Empty: pass"
WaitEmpty ==
    /\ test.pc = "blocked"
    /\ queue.items = <<>>
    /\ now >= test.deadline
    /\ test' = [test EXCEPT !.pc = "check"]
    /\ UNCHANGED <<parser, receiver, kind, protocol, queue, calls, connected,
                   open, forwarded, wire, now, raised, feed, loop, lc_task,
                   results, hist, ctl>>

\* A thread has a step to take now: the clock waits for it
Runnable ==
    \/ test.pc \notin {"idle", "blocked", "sleep"}
    \/ test.pc = "blocked" /\ (queue.items # <<>> \/ now >= test.deadline)
    \/ loop.pc # "idle"
    \/ calls # <<>>
    \/ lc_task.running /\ now >= lc_task.next

Tick ==
    /\ now < MaxTime
    /\ ~Runnable
    /\ now' = now + 1
    /\ UNCHANGED <<parser, receiver, kind, protocol, queue, calls, connected,
                   open, forwarded, wire, raised, feed, test, loop, lc_task,
                   results, hist, ctl>>

NextLink ==
    \/ \E d \in Inbound : DataReceived(d)
    \/ RunCall
    \/ Cancel
    \/ \E timeout \in Timeouts : WaitBegin(timeout)
    \/ WaitCheck
    \/ WaitGet
    \/ WaitWake
    \/ WaitEmpty
    \/ Tick

SpecLink == InitLink /\ [][NextLink]_vars

(***************************************************************************)
(* Sending.  The test thread calls FIXTransport.send_message itself, while *)
(* the event loop runs the heartbeat timer of the same connection.  The    *)
(* test thread's call is split where it reads or writes the session; a     *)
(* handler of the event loop is one step.                                  *)
(***************************************************************************)
MaxSends == 2       \* the most calls of send_message the test thread makes

\* What the test thread sends: an order, and a message without its type
Outbound ==
    { FIXMessage(DefaultHeader, <<Scalar(35, <<68>>), Scalar(11, K1)>>),
      FIXMessage(DefaultHeader, <<Scalar(11, K2)>>) }

\* The sequence number a message bears
SeqnoOf(message) == ToInt(GetItem(message, 34).s)

Max(a, b) == IF a > b THEN a ELSE b

InitSend ==
    /\ parser = NewParser(SessionParserConfig)
    /\ receiver = NewReceiver
    /\ kind = "protocol"
    /\ protocol = [NewProtocol(TestLinkConfig(1), 0) EXCEPT !.filter_heartbeat = TRUE]
    /\ queue = NewQueue
    /\ calls = <<>>
    /\ connected = TRUE
    /\ open = TRUE
    /\ forwarded = <<>>
    /\ wire = <<>>
    /\ now = 0
    /\ raised = NoException
    /\ feed = NoFeed
    /\ NoThreads
    /\ hist = NoHistory
    /\ ctl = NoController

\* FIXTransport.start_heartbeat(True), called by the test thread
StartHeartbeat ==
    /\ test.pc = "idle"
    /\ ~lc_task.set
    /\ lc_task' = [lc_task EXCEPT !.set = TRUE]
    /\ calls' = Append(calls, [fn |-> "start", interval |-> protocol.heartbeat])
    /\ UNCHANGED <<parser, receiver, kind, protocol, queue, connected, open,
                   forwarded, wire, now, raised, feed, test, loop, results,
                   hist, ctl>>

\* The test thread calls send_message(message); prepare_send_message loads
\* self._send_seqno
SendLoad(message) ==
    /\ test.pc = "idle"
    /\ hist.ncalls < MaxSends
    /\ test' = [Idle EXCEPT !.pc = "store", !.message = message,
                            !.reg = protocol.send_seqno,
                            !.k0 = protocol.send_seqno]
    /\ hist' = [hist EXCEPT !.ncalls = @ + 1]
    /\ UNCHANGED <<parser, receiver, kind, protocol, queue, calls, connected,
                   open, forwarded, wire, now, raised, feed, loop, lc_task,
                   results, ctl>>

\* ... and stores the value it loaded, plus one; "send_time = now()"
SendStore ==
    /\ test.pc = "store"
    /\ protocol' = [protocol EXCEPT !.send_seqno = NextSeqno(test.reg)]
    /\ test' = [test EXCEPT !.pc = "stamp", !.send_time = now]
    /\ hist' = [hist EXCEPT !.high = Max(@, NextSeqno(test.reg)),
                            !.off_loop = TRUE]
    /\ UNCHANGED <<parser, receiver, kind, queue, calls, connected, open,
                   forwarded, wire, now, raised, feed, loop, lc_task, results,
                   ctl>>

\* How a call of send_message ended
SendResult(outcome, ref) ==
    [call |-> "send_message", outcome |-> outcome, value |-> ref]

\* The rest of prepare_send_message: tags 8, 34 (self._send_seqno is read
\* again) and 52, the required tags, self._last_send_time
SendStamp ==
    LET Checked(m, missing) ==
            IF missing # 0
            THEN /\ test' = Idle
                 /\ results' = Append(results, SendResult("FIXDataError", missing))
                 /\ UNCHANGED <<protocol, hist>>
            ELSE /\ test' = [test EXCEPT !.pc = "post", !.message = m]
                 /\ protocol' = [protocol EXCEPT !.last_send_time = test.send_time]
                 /\ hist' = [hist EXCEPT !.sent =
                                Append(@, [by |-> "test", seqno |-> SeqnoOf(m),
                                           k0 |-> test.k0])]
                 /\ UNCHANGED results
        Stamped(m) ==
            Checked(m, FirstMissing(m, SendRequired(protocol.link_config.required_fields)))
    IN /\ test.pc = "stamp"
       /\ Stamped(Stamp(protocol, test.message, test.send_time))
       /\ UNCHANGED <<parser, receiver, kind, queue, calls, connected, open,
                      forwarded, wire, now, raised, feed, loop, lc_task, ctl>>

\* "data = message.to_binary()" and callFromThread(self.transport.write, data)
SendPost ==
    LET Written(bin) ==
            calls' = IF connected THEN PostWrite(calls, bin.data, bin.msg) ELSE calls
    IN /\ test.pc = "post"
       /\ Written(to_binary(test.message, {}, {}))
       /\ test' = Idle
       /\ results' = Append(results, SendResult("sent", 0))
       /\ UNCHANGED <<parser, receiver, kind, protocol, queue, connected, open,
                      forwarded, wire, now, raised, feed, loop, lc_task, hist, ctl>>

\* What the messages of posted writes bear, as history records; before the
\* i-th of them the counter was k + i - 1
StampedByLoop(posted, k) ==
    [i \in 1..Len(posted) |->
        [by |-> "loop", seqno |-> SeqnoOf(posted[i].message), k0 |-> k + i - 1]]

\* The LoopingCall of the transport calls on_timer_tick_received; an exception
\* stops the LoopingCall
TimerFire ==
    LET Fired(w) ==
            /\ Becomes(w)
            /\ lc_task' = [lc_task EXCEPT
                             !.running = (w.exc = "none"),
                             !.next = @ + protocol.heartbeat * TicksPerSec]
            /\ hist' = [hist EXCEPT
                          !.high = Max(@, w.protocol.send_seqno),
                          !.sent = @ \o StampedByLoop(
                                          SubSeq(w.calls, Len(calls) + 1, Len(w.calls)),
                                          protocol.send_seqno)]
    IN /\ lc_task.running
       /\ now >= lc_task.next
       /\ Fired(on_timer_tick_received(World))
       /\ UNCHANGED <<kind, connected, open, wire, now, feed, test, loop,
                      results, ctl>>

NextSend ==
    \/ StartHeartbeat
    \/ \E message \in Outbound : SendLoad(message)
    \/ SendStore
    \/ SendStamp
    \/ SendPost
    \/ TimerFire
    \/ RunCall
    \/ Tick

SpecSend == InitSend /\ [][NextSend]_vars

\* The sequence numbers written to the socket, in the order of the writes
WireSeqnos == [i \in 1..Len(wire) |-> SeqnoOf(wire[i].message)]

\* Every message bears the counter's value at the start of its call, plus one
StampsFollowCounter ==
    \A i \in 1..Len(hist.sent) : hist.sent[i].seqno = hist.sent[i].k0 + 1

\* The counter is the highest value it ever had
CounterNeverDecreases == protocol.send_seqno = hist.high

\* No two messages bear the same sequence number
StampsDistinct ==
    \A i, j \in 1..Len(hist.sent) :
        i # j => hist.sent[i].seqno # hist.sent[j].seqno

\* The socket gets the messages in strictly increasing order of their numbers
WireInOrder ==
    \A i, j \in 1..Len(wire) : i < j => WireSeqnos[i] < WireSeqnos[j]

\* C1: for a session whose send_seqno is k, successive successful sends stamp
\* tag 34 with k+1, k+2, ...: every message bears the counter's value at its
\* call plus one (the counter starts at 0), and send_seqno never decreases.
C1_SeqnoSteps ==
    /\ StampsFollowCounter
    /\ CounterNeverDecreases

\* C2: with the test thread sending while the heartbeat timer sends on the
\* same connection, no two messages bear the same MsgSeqNum, each bears the
\* number allocated for it, the socket gets them in strictly increasing order,
\* and the session's counter and timestamps are written by the event loop only.
C2_SendsSerialised ==
    /\ StampsDistinct
    /\ StampsFollowCounter
    /\ WireInOrder
    /\ ~hist.off_loop

(***************************************************************************)
(* The controller: the test thread runs _execute_test with a test that     *)
(* waits for the client's connection, for a connection to the server and   *)
(* for one message; the event loop connects, accepts and receives; a       *)
(* signal calls cancel_test.  A sleep of the polling loops ends at some    *)
(* time, which the clock does not measure.                                 *)
(***************************************************************************)
per_sec == 5
MaxAccepts == 2     \* the most connections the server factory accepts

\* The timeouts the test passes to wait_for_*_connections, in seconds
ConnectTimeouts == {0, 1}

\* What the client's connection receives
CtlInbound == {d \in Inbound : d.keys = <<K1>>}

\* The except clauses of _execute_test; the errors of the queue are those of
\* fixtest.base
StatusOf(exc) ==
    IF exc = "none" THEN "ok"
    ELSE IF exc \in {"TestInterruptedError", "FixtestTestInterruptedError"}
    THEN "fail: test cancelled"
    ELSE IF exc \in {"TimeoutError", "FixtestTimeoutError"} THEN "fail: timeout"
    ELSE "fail: exception"

InitCtl ==
    /\ parser = NewParser(SessionParserConfig)
    /\ receiver = NewReceiver
    /\ kind = "protocol"
    /\ protocol = [NewProtocol(TestLinkConfig(0), 0) EXCEPT !.filter_heartbeat = TRUE]
    /\ queue = NewQueue
    /\ calls = <<>>
    /\ connected = FALSE
    /\ open = FALSE
    /\ forwarded = <<>>
    /\ wire = <<>>
    /\ now = 0
    /\ raised = NoException
    /\ feed = NoFeed
    /\ NoThreads
    /\ hist = NoHistory
    /\ ctl = NoController

\* The end of _execute_test: the status of the exception that left the test
\* (none: 'ok', exit_value 0), and "reactor.callFromThread(reactor.stop)"
TestEnds(exc) ==
    /\ ctl' = [ctl EXCEPT !.phase = "done",
                          !.test_status = StatusOf(exc),
                          !.exit_value = IF exc = "none" THEN 0 ELSE @,
                          !.exc = exc]
    /\ calls' = IF ctl.running THEN Append(calls, [fn |-> "stop"]) ELSE calls
    /\ test' = Idle

\* The polling loop of a wait_for_*_connections begins
Polling(timeout, success) ==
    [Idle EXCEPT !.pc = "poll", !.timeout = timeout, !.reg = timeout * per_sec,
                 !.success = success]

\* _execute_test begins: pre_test, 'test: in-progress', and the test calls
\* wait_for_client_connections(timeout), which posts _start_client
TestStart(timeout) ==
    /\ ctl.phase = "not-started"
    /\ ctl' = [ctl EXCEPT !.phase = "clients", !.test_status = "test: in-progress"]
    /\ calls' = Append(calls, [fn |-> "_start_client"])
    /\ test' = Polling(timeout, "true")
    /\ UNCHANGED <<parser, receiver, kind, protocol, queue, connected, open,
                   forwarded, wire, now, raised, feed, loop, lc_task, results,
                   hist>>

\* One pass of the loop of wait_for_client_connections, and what follows it
\* when the loop has ended
PollClients ==
    /\ ctl.phase = "clients"
    /\ test.pc = "poll"
    /\ IF test.reg = 0
       THEN IF test.success = "true"
            THEN \* wait_for_server_connections(timeout) is called
                 /\ test' = Polling(test.timeout, "unbound")
                 /\ ctl' = [ctl EXCEPT !.phase = "servers"]
                 /\ UNCHANGED calls
            ELSE TestEnds("TimeoutError")
       ELSE IF ctl.is_cancelled THEN TestEnds("TestInterruptedError")
       ELSE IF ctl.client.error THEN TestEnds("ConnectionError")
       ELSE IF ctl.client.connected
            THEN /\ test' = Polling(test.timeout, "unbound")
                 /\ ctl' = [ctl EXCEPT !.phase = "servers"]
                 /\ UNCHANGED calls
       ELSE /\ test' = [test EXCEPT !.pc = "sleep", !.reg = @ - 1, !.success = "false"]
            /\ UNCHANGED <<ctl, calls>>
    /\ UNCHANGED <<parser, receiver, kind, protocol, queue, connected, open,
                   forwarded, wire, now, raised, feed, loop, lc_task, results,
                   hist>>

\* One pass of the loop of wait_for_server_connections, and what follows it
\* when the loop has ended; after it the test is in run()
PollServers ==
    /\ ctl.phase = "servers"
    /\ test.pc = "poll"
    /\ IF test.reg = 0
       THEN IF test.success = "unbound" THEN TestEnds("UnboundLocalError")
            ELSE TestEnds("TimeoutError")
       ELSE IF ctl.is_cancelled THEN TestEnds("TestInterruptedError")
       ELSE IF Len(ctl.servers) > 0
            THEN /\ test' = Idle
                 /\ ctl' = [ctl EXCEPT !.phase = "run"]
                 /\ UNCHANGED calls
       ELSE /\ test' = [test EXCEPT !.pc = "sleep", !.reg = @ - 1, !.success = "false"]
            /\ UNCHANGED <<ctl, calls>>
    /\ UNCHANGED <<parser, receiver, kind, protocol, queue, connected, open,
                   forwarded, wire, now, raised, feed, loop, lc_task, results,
                   hist>>

\* "time.sleep(1.0/per_sec)" returns
SleepEnds ==
    /\ test.pc = "sleep"
    /\ test' = [test EXCEPT !.pc = "poll"]
    /\ UNCHANGED <<parser, receiver, kind, protocol, queue, calls, connected,
                   open, forwarded, wire, now, raised, feed, loop, lc_task,
                   results, hist, ctl>>

\* run(): the test calls client.wait_for_message(timeout=1)
RunWait ==
    /\ ctl.phase = "run"
    /\ hist.ncalls = 0
    /\ WaitBegin(1)

\* The call of wait_for_message has ended: the test ends with its exception,
\* or returns from run() and teardown()
RunEnds ==
    /\ ctl.phase = "run"
    /\ test.pc = "idle"
    /\ hist.ncalls = 1
    /\ TestEnds(IF results[Len(results)].outcome = "message" THEN "none"
                ELSE results[Len(results)].outcome)
    /\ UNCHANGED <<parser, receiver, kind, protocol, queue, connected, open,
                   forwarded, wire, now, raised, feed, loop, lc_task, results,
                   hist>>

\* What the test thread is blocked in
BlockedIn ==
    IF test.pc = "sleep" THEN ctl.phase
    ELSE IF test.pc = "blocked" THEN "wait_for_message"
    ELSE "none"

\* A server transport: its queue
NewTransport == NewQueue

\* TestCaseController.cancel_test, called by the signal handler: the client
\* node's cancel(), then the factory's cancel()
cancel_test ==
    /\ ctl.running
    /\ ctl' = [ctl EXCEPT
                 !.is_cancelled = TRUE,
                 !.servers = [i \in 1..Len(@) |-> QueueCancel(@[i])],
                 !.cancel_in = IF @ = "none" /\ ~ctl.is_cancelled THEN BlockedIn ELSE @]
    /\ TransportCancel

\* The connection of the client succeeds: client_success
ClientConnected ==
    /\ ctl.running
    /\ ctl.client.started
    /\ ~ctl.client.connected /\ ~ctl.client.error
    /\ ctl' = [ctl EXCEPT !.client.connected = TRUE]
    /\ connected' = TRUE
    /\ open' = TRUE
    /\ UNCHANGED <<parser, receiver, kind, protocol, queue, calls, forwarded,
                   wire, now, raised, feed, test, loop, lc_task, results, hist>>

\* The connection of the client fails: client_failure
ClientFailed ==
    /\ ctl.running
    /\ ctl.client.started
    /\ ~ctl.client.connected /\ ~ctl.client.error
    /\ ctl' = [ctl EXCEPT !.client.error = TRUE]
    /\ UNCHANGED <<parser, receiver, kind, protocol, queue, calls, connected,
                   open, forwarded, wire, now, raised, feed, test, loop,
                   lc_task, results, hist>>

\* FIXTransportFactory.buildProtocol: the server accepts a connection
buildProtocol ==
    /\ ctl.running
    /\ Len(ctl.servers) < MaxAccepts
    /\ ctl' = [ctl EXCEPT !.servers = Append(@, NewTransport)]
    /\ UNCHANGED <<parser, receiver, kind, protocol, queue, calls, connected,
                   open, forwarded, wire, now, raised, feed, test, loop,
                   lc_task, results, hist>>

\* dataReceived on the client's connection, while the event loop runs
ClientDataReceived == ctl.running /\ \E d \in CtlInbound : DataReceived(d)

NextCtl ==
    \/ \E timeout \in ConnectTimeouts : TestStart(timeout)
    \/ PollClients
    \/ PollServers
    \/ SleepEnds
    \/ RunWait
    \/ WaitCheck
    \/ WaitGet
    \/ WaitWake
    \/ WaitEmpty
    \/ RunEnds
    \/ cancel_test
    \/ ClientConnected
    \/ ClientFailed
    \/ buildProtocol
    \/ ClientDataReceived
    \/ RunCall
    \/ Tick

SpecCtl == InitCtl /\ [][NextCtl]_vars

\* C7: once cancel_test() has returned, the queue of every transport of the
\* controller is cancelled: the client node's and that of every transport of
\* the server factory, those accepted after the cancel too.
C7_EveryQueueCancelled ==
    ctl.is_cancelled =>
        /\ queue.is_cancelled
        /\ \A i \in 1..Len(ctl.servers) : ctl.servers[i].is_cancelled

\* C8: when cancel_test() comes while the test thread is blocked in
\* wait_for_message, wait_for_client_connections or
\* wait_for_server_connections, the test ends with the interruption: status
\* 'fail: test cancelled', exit_value 1, and the stop of the event loop posted.
C8_CancelEndsTest ==
    ctl.cancel_in # "none" /\ ctl.phase = "done" =>
        /\ ctl.exc \in {"TestInterruptedError", "FixtestTestInterruptedError"}
        /\ ctl.test_status = "fail: test cancelled"
        /\ ctl.exit_value = 1
        /\ (~ctl.running \/ \E i \in 1..Len(calls) : calls[i].fn = "stop")

(***************************************************************************)
(* The session receives: the event loop passes the bytes of a peer to the  *)
(* session, whose filter_heartbeat flag is either value.  The peer's bytes *)
(* are well-formed messages, or messages that fail checks of the session.  *)
(***************************************************************************)
FIXXX == <<70, 73, 88, 46, 88, 46, 88>>

\* The fields of a peer's message after 8 and 9: type, comp ids, the rest
PeerFields(type, fields) ==
    (IF Len(type) = 0 THEN <<>> ELSE <<Scalar(35, type)>>)
        \o <<Scalar(49, <<116, 97, 114, 103, 101, 116>>), Scalar(56, <<115, 101, 110, 100, 101, 114>>)>> \o fields

\* The bytes a peer writes: BodyLength is off by dlen, CheckSum by dsum
PeerBytes(version, fields, dlen, dsum) ==
    LET Signed(head) ==
            head \o _single_field(10, Pad3((checksum(head, 0) + dsum) % 256))
        Counted(body) ==
            Signed(_single_field(8, version)
                     \o _single_field(9, Str(Len(body) + dlen)) \o body)
    IN Counted(WriteItems(fields))

InHeartbeat == PeerMessage(HEARTBEAT, <<Scalar(112, <<84, 49>>)>>)
InOtherTestRequest == PeerMessage(TEST_REQUEST, <<Scalar(112, <<84, 50>>)>>)

\* What one call of dataReceived brings: the bytes, the well-formed messages
\* in them, and for a message that is not well-formed the checks it fails
\* (35: the required tag 35 is missing, 8: version, 9: length, 10: checksum)
Chunk(bytes, msgs, wrong) == [bytes |-> bytes, keys |-> msgs, wrong |-> wrong]

Defective(version, type, dlen, dsum, wrong) ==
    Chunk(PeerBytes(version, PeerFields(type, <<Scalar(11, K1)>>), dlen, dsum), <<>>, wrong)

SessionInbound ==
    { Chunk(Encode(AppMessage(K1)), <<AppMessage(K1)>>, {}),
      Chunk(Encode(InHeartbeat), <<InHeartbeat>>, {}),
      Chunk(Encode(InTestRequest), <<InTestRequest>>, {}),
      Chunk(Encode(InTestRequest) \o Encode(AppMessage(K2)) \o Encode(InOtherTestRequest),
            <<InTestRequest, AppMessage(K2), InOtherTestRequest>>, {}),
      Defective(FIXXX, <<68>>, 0, 0, {8}),
      Defective(FIX42, <<68>>, 1, 0, {9}),
      Defective(FIX42, <<68>>, 0, 1, {10}),
      Defective(FIX42, <<68>>, 1, 1, {9, 10}),
      Defective(FIXXX, <<68>>, 1, 1, {8, 9, 10}),
      Defective(FIX42, <<>>, 0, 0, {35}),
      Defective(FIXXX, <<>>, 1, 1, {35, 8, 9, 10}) }

InitSession ==
    /\ parser = NewParser(SessionParserConfig)
    /\ receiver = NewReceiver
    /\ kind = "protocol"
    \* create_transport: "protocol.filter_heartbeat = self.filter_heartbeat"
    /\ \E filter \in BOOLEAN :
         protocol = [NewProtocol(TestLinkConfig(0), 0) EXCEPT !.filter_heartbeat = filter]
    /\ queue = NewQueue
    /\ calls = <<>>
    /\ connected = TRUE
    /\ open = TRUE
    /\ forwarded = <<>>
    /\ wire = <<>>
    /\ now = 0
    /\ raised = NoException
    /\ feed = NoFeed
    /\ NoThreads
    /\ hist = NoHistory
    /\ ctl = NoController

\* FIXTransport.dataReceived, called by the event loop with a chunk of the
\* peer; what the chunk was is noted
SessionReceive(d) ==
    LET Received(w) ==
            /\ Becomes(w)
            /\ open' = (w.exc = "none")
            /\ hist' = [hist EXCEPT !.nrecv = @ + 1, !.arrived = @ \o d.keys,
                                    !.last = [at |-> now, wrong |-> d.wrong],
                                    !.posted = @ \o SubSeq(w.calls, Len(calls) + 1,
                                                           Len(w.calls))]
    IN /\ open
       /\ hist.nrecv < MaxInbound
       /\ Received(on_data_received(World, d.bytes))
       /\ UNCHANGED <<kind, connected, wire, now, feed, test, loop, lc_task,
                      results, ctl>>

\* The event loop receives a chunk of the peer
PeerSends == \E d \in SessionInbound : SessionReceive(d)

NextSession ==
    \/ PeerSends
    \/ RunCall
    \/ Tick

SpecSession == InitSession /\ [][NextSession]_vars

(***************************************************************************)
(* The timer callback on its own: on_timer_tick_received is called once on *)
(* a session whose times lie some way back, as the session's tests set     *)
(* them.  Ages are in ticks.                                               *)
(***************************************************************************)
Heartbeats == {0, 1}

TicksPerDay == SecondsPerDay * TicksPerSec

\* The clock reading at which the timer callback is called
Epoch == TicksPerDay + 8

\* How long ago something happened: up to 3 seconds in half seconds, a day,
\* a day and 3 seconds
Ages == {0, 2, 3, 4, 5, 6, TicksPerDay, TicksPerDay + 6}

\* The id of a TestRequest sent earlier
TR1 == <<84, 82, 49>>

\* A session that last sent s ticks ago, last received r ticks ago, and has
\* a TestRequest pending for p ticks (none when p is -1)
SessionAged(h, s, r, p) ==
    [NewProtocol(TestLinkConfig(h), 0) EXCEPT
        !.last_send_time = Epoch - s,
        !.last_received_time = Epoch - r,
        !.testrequest_id = IF p = -1 THEN None ELSE TR1,
        !.testrequest_time = IF p = -1 THEN 0 ELSE Epoch - p]

InitTimer ==
    /\ parser = NewParser(SessionParserConfig)
    /\ receiver = NewReceiver
    /\ kind = "protocol"
    \* sending the TestRequest set last_send_time too
    /\ \E h \in Heartbeats, s \in Ages, r \in Ages, p \in Ages \cup {-1} :
         /\ p # -1 => s <= p
         /\ protocol = SessionAged(h, s, r, p)
    /\ queue = NewQueue
    /\ calls = <<>>
    /\ connected = TRUE
    /\ open = TRUE
    /\ forwarded = <<>>
    /\ wire = <<>>
    /\ now = Epoch
    /\ raised = NoException
    /\ feed = NoFeed
    /\ NoThreads
    /\ hist = NoHistory
    /\ ctl = NoController

\* FIXTransport.on_timer_tick_received is called; the session as it was is
\* noted
TimerTick ==
    /\ hist.ncalls = 0
    /\ Becomes(on_timer_tick_received(World))
    /\ hist' = [hist EXCEPT !.ncalls = 1, !.before = protocol]
    /\ UNCHANGED <<kind, connected, open, wire, now, feed, test, loop,
                   lc_task, results, ctl>>

NextTimer ==
    \/ TimerTick
    \/ RunCall

SpecTimer == InitTimer /\ [][NextTimer]_vars

(***************************************************************************)
(* The heartbeat timer at work: the test starts the LoopingCall, which     *)
(* calls on_timer_tick_received every heartbeat seconds, while the peer    *)
(* sends a message or stays silent.                                        *)
(***************************************************************************)
MaxBeatTime == 14   \* the clock stops here

\* What a peer that speaks sends: one well-formed message
BeatInbound == {d \in SessionInbound : d.wrong = {} /\ Len(d.keys) = 1}

\* The event loop receives a message of the peer
PeerSpeaks == \E d \in BeatInbound : SessionReceive(d)

\* The clock advances while every thread waits
BeatTick ==
    /\ now < MaxBeatTime
    /\ ~Runnable
    /\ now' = now + 1
    /\ UNCHANGED <<parser, receiver, kind, protocol, queue, calls, connected,
                   open, forwarded, wire, raised, feed, test, loop, lc_task,
                   results, hist, ctl>>

NextBeat ==
    \/ StartHeartbeat
    \/ TimerFire
    \/ RunCall
    \/ PeerSpeaks
    \/ BeatTick

SpecBeat == InitSend /\ [][NextBeat]_vars

(***************************************************************************)
(* The test thread and the driver: main() runs the reactor, which starts   *)
(* the thread of _execute_test; the test's pre_test, setup, run and        *)
(* teardown return or raise; the reactor runs the stop the thread posts;   *)
(* main() then reports the status and exits.  A signal calls cancel_test.  *)
(***************************************************************************)
Phases == <<"pre_test", "setup", "run", "teardown">>

\* What a phase of a test may raise; the wait_for_* calls of the controller
\* and of the queue raise TestInterruptedError when the test is cancelled
Raises == {"AssertionError", "TestInterruptedError", "TimeoutError", "ValueError"}

\* How a call of a phase ends: it returns (pre_test: True or False) or raises
Endings(phase, is_cancelled) ==
    {"True"}
    \cup (IF phase = "pre_test" THEN {"False"} ELSE {})
    \cup (Raises \ (IF is_cancelled THEN {} ELSE {"TestInterruptedError"}))

\* An except clause that tells no exception from another
ExceptClauseBare(exc) == "fail: exception"

\* The except clauses of _execute_test, in their order
ExceptClause(exc) ==
    IF exc = "AssertionError" THEN "fail: assert failed"
    ELSE StatusOf(exc)

\* TestCaseController.__init__, the reactor running, and main() in
\* reactor.run() with its variable test_thread
ExecController ==
    [phase |-> "not-started", test_status |-> "test: not-started",
     exit_value |-> 1, is_cancelled |-> FALSE, running |-> TRUE,
     ran |-> <<>>, exc |-> "none", pre_test |-> "none", alive |-> FALSE,
     test_thread |-> "None", driver |-> "reactor.run",
     posted |-> <<>>, reported |-> <<>>]

InitExec ==
    /\ parser = NewParser(SessionParserConfig)
    /\ receiver = NewReceiver
    /\ kind = "protocol"
    /\ protocol = NewProtocol(TestLinkConfig(0), 0)
    /\ queue = NewQueue
    /\ calls = <<>>
    /\ connected = FALSE
    /\ open = FALSE
    /\ forwarded = <<>>
    /\ wire = <<>>
    /\ now = 0
    /\ raised = NoException
    /\ feed = NoFeed
    /\ NoThreads
    /\ hist = NoHistory
    /\ ctl = ExecController

\* What the thread and the driver leave alone
ExecRest ==
    UNCHANGED <<parser, receiver, kind, protocol, queue, connected, open,
                forwarded, wire, now, raised, feed, test, loop, lc_task,
                results, hist>>

\* start_test_thread, called by the reactor when it runs: the thread is the
\* local variable of start_test_thread, main()'s test_thread is not assigned
start_test_thread ==
    /\ ctl.running
    /\ ctl.phase = "not-started"
    /\ ctl' = [ctl EXCEPT !.phase = "pre_test", !.alive = TRUE]
    /\ UNCHANGED calls
    /\ ExecRest

\* "if not self.pre_test(): self.test_status = 'test: failed pre-test
\* conditions'; return", and "self.test_status = 'test: in-progress'"
PreTest(ending) ==
    /\ ctl.phase = "pre_test"
    /\ ending \in Endings("pre_test", ctl.is_cancelled)
    /\ ctl' = IF ending = "True"
              THEN [ctl EXCEPT !.ran = Append(@, "pre_test"), !.pre_test = "True",
                               !.test_status = "test: in-progress",
                               !.phase = "setup"]
              ELSE IF ending = "False"
              THEN [ctl EXCEPT !.ran = Append(@, "pre_test"), !.pre_test = "False",
                               !.test_status = "test: failed pre-test conditions",
                               !.phase = "finally"]
              ELSE [ctl EXCEPT !.ran = Append(@, "pre_test"), !.exc = ending,
                               !.phase = "except"]
    /\ UNCHANGED calls
    /\ ExecRest

\* "self.setup()", "self.run()", "self.teardown()": the call returns and the
\* next statement follows, or it raises and the except clauses follow
CallPhase(i, ending) ==
    /\ i \in 2..4
    /\ ctl.phase = Phases[i]
    /\ ending \in Endings(Phases[i], ctl.is_cancelled)
    /\ ctl' = IF ending = "True"
              THEN [ctl EXCEPT !.ran = Append(@, Phases[i]),
                               !.phase = IF i < 4 THEN Phases[i + 1] ELSE "ok"]
              ELSE [ctl EXCEPT !.ran = Append(@, Phases[i]), !.exc = ending,
                               !.phase = "except"]
    /\ UNCHANGED calls
    /\ ExecRest

\* "self.test_status = 'ok'"
SetOk ==
    /\ ctl.phase = "ok"
    /\ ctl' = [ctl EXCEPT !.test_status = "ok", !.phase = "exit_value"]
    /\ UNCHANGED calls
    /\ ExecRest

\* "self.exit_value = 0"
SetExitValue ==
    /\ ctl.phase = "exit_value"
    /\ ctl' = [ctl EXCEPT !.exit_value = 0, !.phase = "finally"]
    /\ UNCHANGED calls
    /\ ExecRest

\* The except clause of the exception that left the try block
Except ==
    /\ ctl.phase = "except"
    /\ ctl' = [ctl EXCEPT !.test_status = ExceptClause(ctl.exc), !.phase = "finally"]
    /\ UNCHANGED calls
    /\ ExecRest

\* "finally: if reactor.running: reactor.callFromThread(reactor.stop)"
Finally ==
    /\ ctl.phase = "finally"
    /\ calls' = IF ctl.running THEN Append(calls, [fn |-> "stop"]) ELSE calls
    /\ ctl' = [ctl EXCEPT !.phase = "return",
                          !.posted = IF ctl.running
                                     THEN <<[test_status |-> ctl.test_status,
                                             exit_value |-> ctl.exit_value]>>
                                     ELSE @]
    /\ ExecRest

\* _execute_test returns and the thread ends
ThreadEnds ==
    /\ ctl.phase = "return"
    /\ ctl' = [ctl EXCEPT !.phase = "ended", !.alive = FALSE]
    /\ UNCHANGED calls
    /\ ExecRest

\* term_signal_handler: controller.cancel_test(), while main() is in
\* reactor.run()
Signal ==
    /\ ctl.driver = "reactor.run"
    /\ ~ctl.is_cancelled
    /\ ctl' = [ctl EXCEPT !.is_cancelled = TRUE]
    /\ UNCHANGED calls
    /\ ExecRest

\* reactor.run() returns to main() when the reactor has stopped
ReactorRunReturns ==
    /\ ctl.driver = "reactor.run"
    /\ ~ctl.running
    /\ ctl' = [ctl EXCEPT !.driver = "join"]
    /\ UNCHANGED calls
    /\ ExecRest

\* "if test_thread is not None: test_thread.join()", with main()'s test_thread
Join ==
    /\ ctl.driver = "join"
    /\ ctl.test_thread # "None" => ~ctl.alive
    /\ ctl' = [ctl EXCEPT !.driver = "report"]
    /\ UNCHANGED calls
    /\ ExecRest

\* The status is logged and "sys.exit(controller.exit_value)"
Report ==
    /\ ctl.driver = "report"
    /\ ctl' = [ctl EXCEPT !.driver = "exit",
                          !.reported = <<[test_status |-> ctl.test_status,
                                          exit_value |-> ctl.exit_value]>>]
    /\ UNCHANGED calls
    /\ ExecRest

NextExec ==
    \/ start_test_thread
    \/ \E ending \in Endings("pre_test", TRUE) : PreTest(ending)
    \/ \E i \in 2..4 : \E ending \in Endings(Phases[i], TRUE) : CallPhase(i, ending)
    \/ SetOk
    \/ SetExitValue
    \/ Except
    \/ Finally
    \/ ThreadEnds
    \/ Signal
    \/ RunCall
    \/ ReactorRunReturns
    \/ Join
    \/ Report

SpecExec == InitExec /\ [][NextExec]_vars

(***************************************************************************)
(* The parser fed with streams of fields, well-formed or not, in chunks of *)
(* some sizes; the history keeps the parser as it was before the last call *)
(* and the chunk of that call.                                             *)
(***************************************************************************)
\* 'tag=value'
Fld(tag, value) == Str(tag) \o <<EQUALS>> \o value

RECURSIVE to_fix(_)
\* to_fix(*args) of the tests: every field followed by 0x01
to_fix(fields) ==
    IF Len(fields) = 0 THEN <<>>
    ELSE Head(fields) \o <<SOH>> \o to_fix(Tail(fields))

\* max_length of the parsers that are to refuse a message of the model
SmallMaxLength == 24

CfgSmall == ParserConfig(<<8, 9>>, {99}, <<>>, SmallMaxLength)
\* test_message_too_large: a parser of a small max_length, no binary field
CfgTight == ParserConfig(<<8, 9>>, {}, <<>>, SmallMaxLength)

\* test_message_starts_incorrectly: the message does not start with tag 8
StartsWith18 ==
    to_fix(<<Fld(18, FIX42), Fld(9, <<51, 50>>), Fld(8, FIX42),
             Fld(35, <<65>>), Fld(10, <<49, 48, 48>>)>>)

\* test_message_starts_incorrectly: tag 8 within a message
SecondTag8 ==
    to_fix(<<Fld(8, FIX42), Fld(9, <<51, 50>>),
             Fld(8, <<97, 98, 99, 100, 101, 102>>), Fld(35, <<65>>),
             Fld(10, <<49, 48, 48>>)>>)

\* test_parser_reset: the tag is not a number
BadTagId ==
    to_fix(<<Fld(8, FIX42), Fld(9, <<51, 50>>), <<97, 98, 99, 100, 61, 65>>>>)

\* a message whose fields pass max_length = SmallMaxLength
TooLongBody ==
    to_fix(<<Fld(8, FIX42), Fld(9, <<51, 50>>), Fld(35, <<65>>),
             Fld(58, <<97, 98, 99, 100, 101, 102, 103, 104, 105, 106, 107, 108, 109, 110, 111, 112, 113, 114, 115, 116>>),
             Fld(10, <<48, 48, 48>>)>>)

\* a binary length that is no number: 99=ab
BadBinaryLength ==
    to_fix(<<Fld(8, FIX42), Fld(9, <<51, 50>>), Fld(99, <<97, 98>>),
             Fld(100, <<120, 121>>), Fld(10, <<48, 48, 48>>)>>)

\* test_bad_binary_fields: the field after the length is not the payload's
WrongBinaryTag ==
    to_fix(<<Fld(8, FIX42), Fld(9, <<51, 50>>), Fld(99, <<53>>),
             Fld(98, <<49, 49>>), Fld(10, <<48, 48, 49>>)>>)

\* test_message_bad_binary_length: more bytes than declared
PayloadLonger ==
    to_fix(<<Fld(8, FIX42), Fld(9, <<51, 50>>), Fld(42, <<65>>),
             Fld(99, <<50>>), Fld(100, <<97, 98, 97, 98, 97, 98, 97, 98>>),
             Fld(10, <<48, 48, 48>>)>>)

\* test_message_bad_binary_length: fewer bytes than declared
PayloadShorter ==
    to_fix(<<Fld(8, FIX42), Fld(9, <<51, 50>>), Fld(42, <<65>>),
             Fld(99, <<50, 48>>), Fld(100, <<97, 98>>),
             Fld(10, <<48, 48, 48>>)>>)

\* a payload of SmallMaxLength bytes
DeclaredMax ==
    to_fix(<<Fld(8, FIX42), Fld(9, <<51, 50>>), Fld(42, <<65>>),
             Fld(99, <<50, 52>>),
             Fld(100, <<97, 98, 97, 98, 97, 98, 97, 98, 97, 98, 97, 98, 97, 98, 97, 98, 97, 98, 97, 98, 97, 98, 97, 98>>),
             Fld(10, <<48, 48, 48>>)>>)

\* test_message_binary_too_long: a length over max_length
DeclaredOver ==
    to_fix(<<Fld(8, FIX42), Fld(9, <<51, 50>>), Fld(42, <<65>>),
             Fld(99, <<50, 53>>), Fld(100, <<97, 98, 97, 98, 97, 98>>),
             Fld(10, <<48, 48, 48>>)>>)

\* A message of one field, within SmallMaxLength
MsgTiny == Msg(<<Scalar(35, <<65>>)>>)

\* A binary field of no bytes
MsgBinaryEmpty ==
    Msg(<<Scalar(35, <<65>>), Scalar(99, <<48>>), Scalar(100, <<>>),
          Scalar(919, <<116, 104, 105, 115>>)>>)

\* two sub-messages, as test_multiple_groups
MsgMultiple ==
    Msg(<<GroupList(100, << <<Scalar(101, <<97>>), Scalar(102, <<98>>)>>,
                            <<Scalar(101, <<97, 97>>), Scalar(102, <<98, 98>>)>> >>)>>)
\* two groups of the message, one after the other
MsgSiblings ==
    Msg(<<GroupList(200, << <<Scalar(201, <<120>>)>> >>),
          GroupList(100, << <<Scalar(101, <<97>>)>> >>)>>)
\* a group of no sub-message
MsgEmptyGroup == Msg(<<Scalar(35, <<65>>), GroupList(100, <<>>)>>)

\* a message whose body, 35=A| and 58=...|, is SmallMaxLength bytes long
MsgExact ==
    Msg(<<Scalar(35, <<65>>), Scalar(58, [i \in 1..(SmallMaxLength - 9) |-> 97])>>)

\* What is fed: a configuration, the stream, and the well-formed messages
\* that end the stream
StreamCase(cfg, stream, msgs) ==
    [cfg |-> cfg, msgs |-> msgs, stream |-> stream,
     decl |-> [L |-> 0, N |-> 0, next |-> 0, len |-> 0]]

\* A stream with one binary length: tag L declares N bytes, and the field
\* after it has the tag next and len bytes up to its delimiter
BinaryCase(cfg, stream, L, N, next, len) ==
    [cfg |-> cfg, msgs |-> <<>>, stream |-> stream,
     decl |-> [L |-> L, N |-> N, next |-> next, len |-> len]]

StreamCases ==
    { StreamCase(CfgPlain, StartsWith18, <<>>),
      StreamCase(CfgPlain, SecondTag8, <<>>),
      StreamCase(CfgPlain, BadTagId \o Encode(MsgTiny), <<MsgTiny>>),
      StreamCase(CfgSmall, TooLongBody \o Encode(MsgTiny), <<MsgTiny>>),
      StreamCase(CfgPlain, Encode(MsgPlain), <<MsgPlain>>),
      StreamCase(CfgBinary, Encode(MsgBinary), <<MsgBinary>>),
      StreamCase(CfgBinary, Encode(MsgBinaryEmpty), <<MsgBinaryEmpty>>),
      StreamCase(CfgBinary, Encode(MsgBinary) \o Encode(MsgPlain), <<MsgBinary, MsgPlain>>),
      StreamCase(CfgGroupedBinary, Encode(MsgGroupedBinary), <<MsgGroupedBinary>>),
      StreamCase(CfgNested, Encode(MsgMultiple), <<MsgMultiple>>),
      StreamCase(CfgNested, Encode(MsgNested), <<MsgNested>>),
      StreamCase(CfgNested, Encode(MsgNestedFirst), <<MsgNestedFirst>>),
      StreamCase(CfgNested, Encode(MsgSiblings), <<MsgSiblings>>),
      StreamCase(CfgNested, Encode(MsgEmptyGroup), <<MsgEmptyGroup>>),
      StreamCase(CfgTight, Encode(MsgExact), <<MsgExact>>),
      StreamCase(CfgSmall, BadBinaryLength, <<>>),
      BinaryCase(CfgSmall, WrongBinaryTag, 99, 5, 98, 2),
      BinaryCase(CfgSmall, PayloadLonger, 99, 2, 100, 8),
      BinaryCase(CfgSmall, PayloadShorter, 99, 20, 100, 2),
      BinaryCase(CfgSmall, DeclaredMax, 99, SmallMaxLength, 100, SmallMaxLength),
      BinaryCase(CfgSmall, DeclaredOver, 99, SmallMaxLength + 1, 100, 6) }

\* The sizes of the chunks, and the rest of the stream in one chunk
ChunkSizes == {1, 2, 3, 5, 8, 13}

InitStream ==
    /\ \E c \in StreamCases :
         /\ parser = NewParser(c.cfg)
         /\ feed = [NoFeed EXCEPT !.case = c, !.rest = c.stream]
    /\ receiver = NewReceiver
    /\ kind = "mock"
    /\ protocol = NewProtocol(TestLinkConfig(0), 0)
    /\ queue = NewQueue
    /\ calls = <<>>
    /\ connected = FALSE
    /\ open = FALSE
    /\ forwarded = <<>>
    /\ wire = <<>>
    /\ now = 0
    /\ raised = NoException
    /\ NoThreads
    /\ hist = NoHistory
    /\ ctl = NoController

\* parser.on_data_received(data) with the next n bytes of the stream
FeedChunk(n) ==
    LET Fed(w) ==
            /\ Becomes(w)
            /\ feed' = [feed EXCEPT !.rest = SubSeq(@, n + 1, Len(@)),
                                    !.ncalls = IF @ < MaxCalls THEN @ + 1 ELSE @,
                                    !.bytewise = @ /\ n = 1,
                                    !.escaped = IF w.exc = "none" THEN @
                                                ELSE @ \cup {w.exc}]
            /\ hist' = [hist EXCEPT !.ncalls = 1,
                                    !.before = [parser |-> parser,
                                                receiver |-> receiver,
                                                data |-> SubSeq(feed.rest, 1, n)],
                                    !.last = IF w.receiver.errors # receiver.errors
                                             THEN [at |-> Len(feed.case.stream)
                                                            - Len(feed.rest) + n,
                                                   wrong |-> {}]
                                             ELSE @]
    IN /\ n \in 1..Len(feed.rest)
       /\ n \in ChunkSizes \cup {Len(feed.rest)}
       /\ Fed(on_data_received(World, SubSeq(feed.rest, 1, n)))
       /\ UNCHANGED <<kind, connected, open, wire, now, test, loop, lc_task,
                      results, ctl>>

NextStream == \E n \in 1..Len(feed.rest) : FeedChunk(n)

SpecStream == InitStream /\ [][NextStream]_vars

(***************************************************************************)
(* The connection: order of delivery, cancellation, timeout                *)
(***************************************************************************)
RECURSIVE Keys(_)
\* The keys of a sequence of messages, in order
Keys(messages) ==
    IF Len(messages) = 0 THEN <<>>
    ELSE <<Key(Head(messages))>> \o Keys(Tail(messages))

RECURSIVE Values(_)
\* What the calls of a sequence of results returned, in order
Values(rs) ==
    IF Len(rs) = 0 THEN <<>>
    ELSE <<Head(rs).value>> \o Values(Tail(rs))

\* The keys the calls of wait_for_message returned, in call order
Returned == Values(SelectSeq(results, LAMBDA r : r.outcome = "message"))

\* The calls of wait_for_message that have ended
Ended == {results[i] : i \in 1..Len(results)}

\* C3: the application messages that passed the session's validation are
\* returned by successive wait_for_message calls in the order their bytes
\* arrived; what has been returned, followed by what is still queued, is what
\* arrived: nothing is lost, duplicated or reordered, and a wait that fails
\* takes nothing from the queue.
C3_ArrivalOrder == Returned \o Keys(queue.items) = hist.arrived

\* Two messages that arrived in one call were returned by two waits, in order
C3_Witness ==
    /\ Len(Returned) = 2
    /\ Returned[1] # Returned[2]
    /\ hist.nrecv = 1

\* C4: a wait_for_message that starts on a cancelled queue with a timeout
\* >= 0 ends with the interruption and returns no message, whatever is queued
\* or added later; a queue that was cancelled stays cancelled.
C4_CancelledQueueInterrupts ==
    /\ \A r \in Ended :
         r.began_cancelled /\ r.timeout >= 0 =>
             r.outcome = "FixtestTestInterruptedError"
    /\ hist.cancelled => queue.is_cancelled

\* A wait that began on a cancelled queue was interrupted with a message queued
C4_Witness ==
    /\ \E r \in Ended : r.began_cancelled /\ r.outcome = "FixtestTestInterruptedError"
    /\ queue.items # <<>>
    /\ queue.is_cancelled

\* C5: a wait_for_message blocked on an empty queue when cancel() is called,
\* its timeout not yet expired, ends with the interruption within one polling
\* period of the cancel: it returns no message and does not time out.
C5_BlockedWaitInterrupted ==
    \A r \in Ended :
        r.cancel_blocked =>
            /\ r.outcome = "FixtestTestInterruptedError"
            /\ r.since_cancel <= GetTimeoutTicks

\* C6: on a queue that stays empty and is never cancelled, wait_for_message
\* fails with the timeout error no earlier than timeout seconds after the call
\* began and no later than half a second after that.
C6_TimeoutWindow ==
    \A r \in Ended :
        r.outcome = "FixtestTimeoutError" /\ ~hist.cancelled /\ hist.arrived = <<>> =>
            /\ r.elapsed >= r.timeout * TicksPerSec
            /\ 2 * r.elapsed <= 2 * r.timeout * TicksPerSec + TicksPerSec

(***************************************************************************)
(* The parser: chunking and the round trip through the encoder             *)
(***************************************************************************)
\* The whole stream of a case passed to a new parser in a single call
SingleCall(c) == on_data_received(MockWorld(c.cfg), c.stream)

\* The stream has been fed to the end
FedAll == Len(feed.case.msgs) > 0 /\ feed.rest = <<>>

\* The fields of a message other than 8, 9, 10
Body(m) == SelectSeq(m, LAMBDA e : e.tag \notin {8, 9, 10})

\* The same tags with the same values; a group's sub-messages are compared
\* in order, member by member
SameFields(a, b) ==
    /\ Len(a) = Len(b)
    /\ {a[i] : i \in 1..Len(a)} = {b[i] : i \in 1..Len(b)}

\* C9: whatever the cuts of a stream of well-formed messages, once the whole
\* stream has been fed the on_message_received callbacks (message, length
\* tally, checksum tally) are those of a single call with the whole stream,
\* and no error was reported or raised.
C9_ChunkingDoesNotShow ==
    LET Same(single) ==
            /\ receiver.log = single.receiver.log
            /\ receiver.errors = <<>>
            /\ feed.escaped = {}
            /\ single.exc = "none"
    IN FedAll => Same(SingleCall(feed.case))

\* C10: to_binary(M) fed to a parser delivers exactly one message, equal to
\* M on every tag other than 8, 9 and 10.
C10_RoundTrip ==
    FedAll /\ Len(feed.case.msgs) = 1 =>
        /\ Len(receiver.log) = 1
        /\ SameFields(Body(receiver.log[1].message), Body(feed.case.msgs[1]))

\* The bytes of "10=xxx" and its delimiter
TrailerLength == 7

\* The bytes of an encoded message from "8=" through the delimiter before "10="
BeforeTrailer(data) == SubSeq(data, 1, Len(data) - TrailerLength)

\* C11: the checksum the parser passes to on_message_received is the sum of
\* the bytes from "8=" through the last delimiter before "10=", modulo 256: a
\* value in 0..255, the one the encoder wrote in tag 10 (000 included).
C11_ChecksumIsEncoders ==
    /\ \A i \in 1..Len(receiver.log) :
         /\ receiver.log[i].checksum \in 0..255
         /\ receiver.log[i].checksum = ToInt(GetItem(receiver.log[i].message, 10).s)
    /\ FedAll /\ Len(feed.case.msgs) = 1 /\ Len(receiver.log) = 1 =>
         receiver.log[1].checksum = checksum(BeforeTrailer(feed.case.stream), 0)

(***************************************************************************)
(* The session: validation, the heartbeat filter, the TestRequest reply    *)
(***************************************************************************)
\* The first check that fails, in the order of the validation: the required
\* tags, the version, the length, the checksum; 0 when none fails
FirstFailing(wrong) ==
    IF 35 \in wrong THEN 35
    ELSE IF 8 \in wrong THEN 8
    ELSE IF 9 \in wrong THEN 9
    ELSE IF 10 \in wrong THEN 10
    ELSE 0

Admin(message) == msg_type(message) \in {HEARTBEAT, TEST_REQUEST}

\* The same messages in the same order, compared on the tags other than 8, 9, 10
SameMessages(a, b) ==
    /\ Len(a) = Len(b)
    /\ \A i \in 1..Len(a) : SameFields(Body(a[i]), Body(b[i]))

\* The writes the session has posted to the event loop, in order: those that
\* reached the socket, then those still posted
Outgoing == wire \o SelectSeq(calls, LAMBDA c : c.fn = "write")

\* The writes the session has posted while it received, in order, whether or
\* not the socket was still open when the event loop ran them
Replies == hist.posted

\* The TestRequests among the well-formed messages that arrived
ArrivedTestRequests == SelectSeq(hist.arrived, LAMBDA m : msg_type(m) = TEST_REQUEST)

\* C13: with filter_heartbeat set the session forwards no Heartbeat and no
\* TestRequest to the transport and every other message exactly once, in
\* order; without the flag it forwards them all.  Either way a well-formed
\* message updates last_received_time and every TestRequest is answered.
C13_HeartbeatFilter ==
    /\ SameMessages(forwarded,
                    IF protocol.filter_heartbeat
                    THEN SelectSeq(hist.arrived, LAMBDA m : ~Admin(m))
                    ELSE hist.arrived)
    /\ hist.nrecv > 0 /\ hist.last.wrong = {} =>
           protocol.last_received_time = hist.last.at
    /\ Len(Replies) = Len(ArrivedTestRequests)

\* With the flag set two TestRequests and an order arrived after the clock
\* had advanced: the order alone was forwarded, both requests were answered
C13_Witness ==
    /\ protocol.filter_heartbeat
    /\ Len(hist.arrived) = 3
    /\ Len(forwarded) = 1
    /\ ~Admin(forwarded[1])
    /\ protocol.last_received_time > 0
    /\ Len(Replies) = 2

\* C14: the queue of the transport holds no Heartbeat and no TestRequest,
\* whatever the session's filter_heartbeat flag; it holds every other message
\* the session forwarded, once, in the order they were forwarded.
C14_QueueHoldsNoAdmin ==
    /\ \A i \in 1..Len(queue.items) : ~Admin(queue.items[i])
    /\ queue.items = SelectSeq(forwarded, LAMBDA m : ~Admin(m))

\* Without the flag the session forwarded two TestRequests and an order; the
\* queue holds the order alone
C14_Witness ==
    /\ ~protocol.filter_heartbeat
    /\ Len(forwarded) = 3
    /\ Admin(forwarded[1])
    /\ Len(queue.items) = 1

\* The i-th write is the Heartbeat that answers the i-th TestRequest, with the
\* session's comp ids and the i-th sequence number of a session that starts at 0
Answers(reply, request, i) ==
    /\ msg_type(reply) = HEARTBEAT
    /\ GetItem(reply, 112).s = GetItem(request, 112).s
    /\ GetItem(reply, 49).s = protocol.link_config.sender_compid
    /\ GetItem(reply, 56).s = protocol.link_config.target_compid
    /\ SeqnoOf(reply) = i

\* C15: every well-formed TestRequest that arrives is answered with exactly
\* one Heartbeat that echoes its tag 112, bears the session's sender and
\* target comp ids and takes the next sequence number, whether or not
\* filter_heartbeat is set; no TestRequest is forwarded before its answer has
\* been sent.
C15_TestRequestAnswered ==
    /\ Len(Replies) = Len(ArrivedTestRequests)
    /\ \A i \in 1..Len(Replies) :
         Answers(Replies[i].message, ArrivedTestRequests[i], i)
    /\ protocol.send_seqno = Len(Replies)
    /\ Len(SelectSeq(forwarded, LAMBDA m : msg_type(m) = TEST_REQUEST)) <= Len(Replies)

\* Two TestRequests with different ids were answered, and an answer was written
C15_Witness ==
    /\ Len(Replies) = 2
    /\ GetItem(Replies[1].message, 112).s # GetItem(Replies[2].message, 112).s
    /\ Len(wire) > 0
    /\ Len(forwarded) = 3

(***************************************************************************)
(* The timer callback                                                      *)
(***************************************************************************)
RECURSIVE Types(_)
\* The types of the messages of a sequence of writes, in order
Types(writes) ==
    IF Len(writes) = 0 THEN <<>>
    ELSE <<msg_type(Head(writes).message)>> \o Types(Tail(writes))

\* The timer callback has been called
Ticked == hist.ncalls = 1

\* More than n seconds lie between the clock reading t and now
MoreThan(n, t) == now - t > n * TicksPerSec

\* C16: a timer tick with a heartbeat interval h > 0 that raises nothing
\* sends a Heartbeat if and only if more than h seconds have passed since
\* last_send_time, then a TestRequest if and only if more than h seconds have
\* passed since last_received_time; the TestRequest bears a new id, which is
\* recorded as pending with the time of the tick; a send sets last_send_time.
\* With h <= 0 the tick sends nothing, raises nothing and changes nothing.
C16_TickSends ==
    LET Sends(b) ==
            (IF MoreThan(b.heartbeat, b.last_send_time) THEN <<HEARTBEAT>> ELSE <<>>)
                \o (IF MoreThan(b.heartbeat, b.last_received_time)
                    THEN <<TEST_REQUEST>> ELSE <<>>)
        Requested(b) ==
            /\ protocol.testrequest_id # None
            /\ protocol.testrequest_id # b.testrequest_id
            /\ protocol.testrequest_time = now
            /\ GetItem(Outgoing[Len(Outgoing)].message, 112).s = protocol.testrequest_id
        Right(b) ==
            IF b.heartbeat <= 0
            THEN Outgoing = <<>> /\ raised = NoException /\ protocol = b
            ELSE raised.exc = "none" =>
                    /\ Types(Outgoing) = Sends(b)
                    /\ Outgoing # <<>> => protocol.last_send_time = now
                    /\ MoreThan(b.heartbeat, b.last_received_time) => Requested(b)
    IN Ticked => Right(hist.before)

\* C17: a timer tick with a heartbeat interval h > 0 raises FIXTimeoutError
\* exactly when a TestRequest is pending and more than 2*h seconds have passed
\* since it was sent, however long ago that was; such a tick sends nothing and
\* leaves the session as it was.
C17_TickTimesOut ==
    LET Right(b) ==
            /\ raised.exc = "FIXTimeoutError" <=>
                   (b.testrequest_id # None /\ MoreThan(2 * b.heartbeat, b.testrequest_time))
            /\ raised.exc = "FIXTimeoutError" => Outgoing = <<>> /\ protocol = b
    IN Ticked /\ hist.before.heartbeat > 0 => Right(hist.before)

\* The time, in ticks, within which an unanswered TestRequest is to be
\* detected: twice the interval, the tick after that, and a second for the
\* whole seconds of the timestamps
DetectWithin(h) == (2 * h + h + 1) * TicksPerSec

\* The timer callback raised: the LoopingCall has stopped
Detected == lc_task.set /\ ~lc_task.running /\ raised.exc = "FIXTimeoutError"

\* C18: with the timer calling on_timer_tick_received every h seconds, a
\* TestRequest the session has sent to a peer that sends nothing is detected:
\* a tick raises FIXTimeoutError about 2*h seconds after the TestRequest was
\* sent, at the latest at the first tick after 2*h seconds and a second.
C18_UnansweredDetected ==
    \A i \in 1..Len(Outgoing) :
        \A t \in 0..now :
            /\ msg_type(Outgoing[i].message) = TEST_REQUEST
            /\ GetItem(Outgoing[i].message, 52).s = format_time(t)
            /\ hist.nrecv = 0
            /\ now - t > DetectWithin(protocol.heartbeat)
            => Detected

(***************************************************************************)
(* The test thread and the driver                                          *)
(***************************************************************************)
\* The phases that were called are the first of the four, in their order
CalledInOrder == ctl.ran = SubSeq(Phases, 1, Len(ctl.ran))

\* A phase that raised, or pre_test returning False, is the last one called
StopsAtFailure ==
    /\ ctl.exc # "none" => ctl.ran # <<>> /\ ctl.phase \notin {"setup", "run", "teardown", "ok", "exit_value"}
    /\ ctl.pre_test = "False" => ctl.ran = <<"pre_test">> /\ ctl.exc = "none"
    /\ ctl.phase \in {"setup", "run", "teardown"} =>
           Phases[Len(ctl.ran) + 1] = ctl.phase

\* All four phases have returned, pre_test with True
Completed == ctl.ran = Phases /\ ctl.exc = "none" /\ ctl.pre_test = "True"

\* The try statement has been left: the finally clause is next or has run
Settled == ctl.phase \in {"finally", "return", "ended"}

\* The status of each exception, with the exit value 1
Taxonomy ==
    Settled /\ ctl.exc # "none" =>
        /\ ctl.exit_value = 1
        /\ ctl.exc = "AssertionError" => ctl.test_status = "fail: assert failed"
        /\ ctl.exc = "TestInterruptedError" => ctl.test_status = "fail: test cancelled"
        /\ ctl.exc = "TimeoutError" => ctl.test_status = "fail: timeout"
        /\ ctl.exc \notin {"AssertionError", "TestInterruptedError", "TimeoutError"} =>
               ctl.test_status = "fail: exception"

\* At every moment: exit_value = 0 iff test_status = 'ok' iff all four phases
\* completed without exception
C19_AtEveryMoment ==
    /\ CalledInOrder
    /\ StopsAtFailure
    /\ ctl.exit_value = 0 <=> ctl.test_status = "ok"
    /\ ctl.test_status = "ok" <=> Completed
    /\ Taxonomy

\* C19: the test thread calls pre_test, setup, run, teardown in that order
\* and stops at the first that fails (nothing runs after pre_test returns
\* False).  exit_value = 0 only if test_status = 'ok', and that only if all
\* four phases completed without exception; once the thread has left the try
\* statement, so from the posting of the stop on, the three are equivalent.
\* AssertionError gives 'fail: assert failed', TestInterruptedError 'fail:
\* test cancelled', TimeoutError 'fail: timeout', any other exception 'fail:
\* exception', each with exit_value 1.
C19_PhasesAndStatus ==
    /\ CalledInOrder
    /\ StopsAtFailure
    /\ ctl.exit_value = 0 => ctl.test_status = "ok"
    /\ ctl.test_status = "ok" => Completed
    /\ Settled /\ Completed => ctl.exit_value = 0
    /\ Taxonomy

\* run() raised TimeoutError: teardown was not called, and the thread ended
C19_Witness ==
    /\ ctl.phase = "ended"
    /\ ctl.exc = "TimeoutError"
    /\ ctl.ran = <<"pre_test", "setup", "run">>
    /\ ctl.test_status = "fail: timeout"

\* The thread has left the finally clause: a stop was posted to the reactor
StopPosted == ctl.phase \in {"return", "ended"} => ctl.posted # <<>>

\* The stop was posted with the values test_status and exit_value have
PostedFinal ==
    ctl.posted # <<>> =>
        /\ ctl.posted[1].test_status = ctl.test_status
        /\ ctl.posted[1].exit_value = ctl.exit_value

\* main() reports when the thread has ended
DriverJoined == ctl.driver \in {"report", "exit"} => ~ctl.alive

\* What main() reported are the values test_status and exit_value have
ReportedFinal ==
    ctl.reported # <<>> =>
        /\ ctl.reported[1].test_status = ctl.test_status
        /\ ctl.reported[1].exit_value = ctl.exit_value
        /\ Settled

\* C20: in every outcome of the test thread a stop of the reactor is posted,
\* and only after test_status and exit_value have their final values; main()
\* waits for the test thread to end before it reports the status and exits,
\* and the exit code it reports is the final one.
C20_StopThenJoinThenReport ==
    /\ StopPosted
    /\ PostedFinal
    /\ DriverJoined
    /\ ReportedFinal

(***************************************************************************)
(* The controller's waits for connections                                  *)
(***************************************************************************)
\* What a wait for connections may raise
WaitRaises ==
    {"ConnectionError", "TestInterruptedError", "FixtestTestInterruptedError",
     "TimeoutError", "FixtestTimeoutError"}

\* C21: wait_for_client_connections(timeout) returns normally only when the
\* client is marked connected, and wait_for_server_connections(timeout) only
\* when the server factory holds an accepted transport; otherwise the call,
\* and with it the test, ends with ConnectionError, the interruption or
\* TimeoutError, for every timeout, 0 too.
C21_WaitsForConnections ==
    /\ ctl.phase \in {"servers", "run"} => ctl.client.connected
    /\ ctl.phase = "run" => Len(ctl.servers) > 0
    /\ ctl.phase = "done" => ctl.exc \in {"none"} \cup WaitRaises

(***************************************************************************)
(* The parser, field by field                                              *)
(***************************************************************************)
\* A call of on_data_received has been made
Called == hist.ncalls = 1

\* What the last call had to work on: the buffer it found and its chunk
Pending == hist.before.parser.buffer \o hist.before.data

\* The last call found no binary payload pending and a whole field to parse
FieldParsed ==
    /\ Called
    /\ hist.before.parser.binary_tag = 0
    /\ Find(Pending, SOH, 0) # 0

\* The first field the last call parsed: its tag and value
FirstField == _parse_field(SubSeq(Pending, 1, Find(Pending, SOH, 0) - 1))

\* The field the last call parsed was all it had
OnlyField == Find(Pending, SOH, 0) = Len(Pending)

\* The last call reported the error and delivered nothing
Reported(err) ==
    /\ receiver.errors = Append(hist.before.receiver.errors, err)
    /\ receiver.log = hist.before.receiver.log

\* C22: a field with tag 8 parsed while is_parsing is true, and a field with
\* another tag parsed while is_parsing is false, are reported as a
\* FIXParserError; a field with tag 8 parsed while is_parsing is false sets
\* is_parsing and starts a new message, which holds tag 8 and nothing else.
C22_MessageStartsWithTag8 ==
    FieldParsed /\ FirstField.exc = "none" =>
        /\ FirstField.tag_id = 8 /\ hist.before.parser.is_parsing =>
               Reported("FIXParserError")
        /\ FirstField.tag_id # 8 /\ ~hist.before.parser.is_parsing =>
               Reported("FIXParserError")
        /\ FirstField.tag_id = 8 /\ ~hist.before.parser.is_parsing /\ OnlyField =>
               /\ parser.is_parsing
               /\ parser.message =
                      SetItem(FIXMessage(parser.cfg.header_fields, <<>>),
                              Scalar(8, FirstField.value))
               /\ receiver = hist.before.receiver

\* A second tag 8 arrived within a message and was reported
C22_Witness ==
    /\ FieldParsed
    /\ FirstField.exc = "none"
    /\ FirstField.tag_id = 8
    /\ hist.before.parser.is_parsing
    /\ Reported("FIXParserError")

\* The last call reported an error
ErrorReported ==
    /\ Called
    /\ Len(receiver.errors) = Len(hist.before.receiver.errors) + 1
    /\ receiver.errors[Len(receiver.errors)] \in Caught

\* Where in its stream the well-formed message of a case begins
GoodAt(c) == Len(c.stream) - Len(Encode(c.msgs[1]))

\* C23: when a call has reported a FIXParserError or a FIXLengthTooLongError
\* the parser is as it was made: is_parsing false, the buffer empty, no level,
\* the tallies zero, no binary field pending, is_receiving_data false; and a
\* well-formed message fed after the last such call is delivered.
C23_ResetOnError ==
    /\ ErrorReported => parser = NewParser(parser.cfg)
    /\ /\ feed.rest = <<>>
       /\ Len(feed.case.msgs) = 1
       /\ hist.last.at # -1
       /\ hist.last.at <= GoodAt(feed.case)
       => /\ Len(receiver.log) = 1
          /\ SameFields(Body(receiver.log[1].message), Body(feed.case.msgs[1]))
          /\ ~parser.is_parsing

\* A message too long was refused with bytes of its chunk unprocessed, and the
\* message fed after that was delivered
C23_Witness ==
    /\ feed.rest = <<>>
    /\ receiver.errors = <<"FIXLengthTooLongError">>
    /\ Len(feed.case.msgs) = 1
    /\ hist.last.at = GoodAt(feed.case)
    /\ Len(receiver.log) = 1

RECURSIVE EncodeAll(_)
\* The encodings of a sequence of messages, one after the other
EncodeAll(msgs) ==
    IF Len(msgs) = 0 THEN <<>> ELSE Encode(Head(msgs)) \o EncodeAll(Tail(msgs))

\* The stream of the case is what to_binary makes of messages with a binary
\* field, and all of it has been fed
BinaryFed ==
    /\ feed.rest = <<>>
    /\ feed.case.cfg.binary_fields # {}
    /\ feed.case.msgs # <<>>
    /\ feed.case.stream = EncodeAll(feed.case.msgs)

\* C24: after a tag L of binary_fields with the decimal value N the next field
\* is tag L+1 with the N bytes that follow "L+1=", delimiters and equals signs
\* among them, in one chunk or in several; the fields after the payload are
\* parsed as fields, and the message delivered maps L+1 to those N bytes.
C24_BinaryPayload ==
    BinaryFed =>
        /\ receiver.errors = <<>>
        /\ feed.escaped = {}
        /\ Len(receiver.log) = Len(feed.case.msgs)
        /\ \A i \in 1..Len(receiver.log) :
               SameFields(Body(receiver.log[i].message), Body(feed.case.msgs[i]))

\* A payload with a delimiter and an equals sign, fed one byte at a time
C24_Witness ==
    /\ BinaryFed
    /\ feed.bytewise
    /\ Len(receiver.log) = 1
    /\ GetItem(receiver.log[1].message, 100).s = <<49, SOH, 61, 52, SOH>>
    /\ GetItem(receiver.log[1].message, 919).s = <<116, 104, 105, 115>>

\* The last call parsed a binary length tag of a message, and nothing else,
\* with the tally of the message's length within max_length after it
LengthTagParsed ==
    /\ FieldParsed
    /\ OnlyField
    /\ FirstField.exc = "none"
    /\ FirstField.tag_id \in parser.cfg.binary_fields
    /\ IsDigits(FirstField.value)
    /\ hist.before.parser.is_parsing
    /\ hist.before.parser.message_length + Len(Pending) < parser.cfg.max_length

\* The stream with a binary length has been fed
DeclFed == feed.rest = <<>> /\ feed.case.decl.L # 0

\* An error of the kind was reported
Among(errors, err) == \E i \in 1..Len(errors) : errors[i] = err

\* C25: after a binary length tag L with the value N, a following field with
\* a tag other than L+1 is reported as a FIXParserError, and so is a payload
\* of another length than N up to its delimiter; the length tag itself is
\* reported as a FIXLengthTooLongError exactly when N > max_length.
C25_BinaryLengthErrors ==
    /\ DeclFed /\ feed.case.decl.N <= parser.cfg.max_length =>
           /\ feed.case.decl.next # feed.case.decl.L + 1 =>
                  Among(receiver.errors, "FIXParserError")
           /\ feed.case.decl.len # feed.case.decl.N =>
                  Among(receiver.errors, "FIXParserError")
    /\ LengthTagParsed =>
           (Reported("FIXLengthTooLongError")
               <=> ToInt(FirstField.value) > parser.cfg.max_length)

(***************************************************************************)
(* The parser's groups                                                     *)
(***************************************************************************)
\* The last call parsed one field of a message, within a group, and accepted
\* it
MemberParsed ==
    /\ FieldParsed
    /\ OnlyField
    /\ FirstField.exc = "none"
    /\ hist.before.parser.is_parsing
    /\ hist.before.parser.level_stack # <<>>
    /\ receiver = hist.before.receiver
    /\ feed.escaped = {}
    /\ FirstField.tag_id \in
           parser.cfg.group_fields[Top(hist.before.parser.level_stack).tag_id]

\* The level has no current sub-message, or its current one holds the tag
StartsNew(level, tag_id) ==
    ~level.has_group \/ Contains(Top(level.list), tag_id)

\* The list of a level after a field of the tag has started a sub-message
Started(list, tag_id, value) == Append(list, <<Scalar(tag_id, value)>>)

\* The list of a level after its current sub-message has stored the field
StoredLast(list, tag_id, value) ==
    [list EXCEPT ![Len(list)] = Append(@, Scalar(tag_id, value))]

\* The rule of C26: before is the level stack the call found
MemberRule(before, tag_id, value) ==
    /\ Len(parser.level_stack) = Len(before)
    /\ Pop(parser.level_stack) = Pop(before)
    /\ Top(parser.level_stack).has_group
    /\ Top(parser.level_stack).list =
           IF StartsNew(Top(before), tag_id)
           THEN Started(Top(before).list, tag_id, value)
           ELSE StoredLast(Top(before).list, tag_id, value)

GroupsFed ==
    /\ feed.rest = <<>>
    /\ DOMAIN feed.case.cfg.group_fields # {}
    /\ Len(feed.case.msgs) = 1
    /\ feed.case.stream = Encode(feed.case.msgs[1])

\* C27: a tag that is no member of the innermost level closes levels, each
\* list attached under its lead tag to the current sub-message of the level
\* below, or to the message, until a level that has the tag as a member is
\* innermost or none is left; tag 10 closes all levels: the message delivered
\* holds every group that was opened, nested where it was opened, and the
\* level stack is empty.
C27_LevelsClosed ==
    GroupsFed =>
        /\ feed.escaped = {}
        /\ receiver.errors = <<>>
        /\ Len(receiver.log) = 1
        /\ SameFields(Body(receiver.log[1].message), Body(feed.case.msgs[1]))
        /\ parser.level_stack = <<>>

(***************************************************************************)
(* One byte at a time                                                      *)
(***************************************************************************)
\* The stream of the case is one well-formed message without groups, and
\* what has been fed of it was fed in calls of one byte
FedBytewise ==
    /\ feed.bytewise
    /\ Len(feed.case.msgs) = 1
    /\ feed.case.stream = Encode(feed.case.msgs[1])
    /\ DOMAIN feed.case.cfg.group_fields = {}

\* The number of bytes fed
NFed == Len(feed.case.stream) - Len(feed.rest)

\* C30: a single well-formed message fed to a fresh parser one byte at a
\* time: is_parsing is true after every byte from the first up to, and not
\* including, the final delimiter, with nothing delivered yet; after the
\* final byte is_parsing is false and exactly one message has been
\* delivered.
C30_OneByteAtATime ==
    FedBytewise /\ NFed >= 1 =>
        /\ receiver.errors = <<>>
        /\ feed.escaped = {}
        /\ NFed < Len(feed.case.stream) =>
               parser.is_parsing /\ receiver.log = <<>>
        /\ NFed = Len(feed.case.stream) =>
               ~parser.is_parsing /\ Len(receiver.log) = 1

(***************************************************************************)
(* Preparing a message for sending.  A session of some link configuration  *)
(* is handed messages, one call of prepare_send_message after the other,   *)
(* by one thread.                                                          *)
(***************************************************************************)
MaxPrepares == 2    \* the most calls of prepare_send_message
MaxPrepTime == 2    \* the clock stops here

SENDER == <<115, 101, 110, 100, 101, 114>>
TARGET == <<116, 97, 114, 103, 101, 116>>

\* The required_fields of the link configurations
RequiredChoices ==
    { <<8, 9, 35>>, <<8, 9, 35, 49, 56, 34, 52, 10>>, <<56, 35>>, <<9, 10>> }

\* The protocol_version of the link configurations: the tests', and none
VersionChoices == { FIX42, <<>> }

\* What is handed over: the message of test_send_with_missing_fields, an
\* order with all of its header, a message without its type, a heartbeat,
\* a message that bears stamps already, and one built without a header
Prepared ==
    { FIXMessage(DefaultHeader, <<Scalar(8, FIX42), Scalar(35, <<65>>)>>),
      FIXMessage(DefaultHeader, <<Scalar(35, <<68>>), Scalar(49, SENDER),
                                  Scalar(56, TARGET), Scalar(11, K1)>>),
      FIXMessage(DefaultHeader, <<Scalar(49, SENDER), Scalar(11, K2)>>),
      FIXMessage(DefaultHeader, <<Scalar(35, HEARTBEAT), Scalar(49, SENDER),
                                  Scalar(56, TARGET)>>),
      FIXMessage(DefaultHeader, <<Scalar(52, <<63>>), Scalar(34, <<57, 57>>),
                                  Scalar(8, <<70, 73, 88>>), Scalar(35, <<68>>),
                                  Scalar(56, TARGET)>>),
      FIXMessage(<<>>, <<Scalar(35, <<68>>), Scalar(11, K1)>>) }

InitPrepare ==
    /\ \E required \in RequiredChoices, version \in VersionChoices,
          seqno \in {0, 9} :
           protocol = NewProtocol(LinkConfig(version, required, SENDER, TARGET,
                                             seqno, 0), 0)
    /\ parser = NewParser(SessionParserConfig)
    /\ receiver = NewReceiver
    /\ kind = "protocol"
    /\ queue = NewQueue
    /\ calls = <<>>
    /\ connected = FALSE
    /\ open = FALSE
    /\ forwarded = <<>>
    /\ wire = <<>>
    /\ now = 0
    /\ raised = NoException
    /\ feed = NoFeed
    /\ NoThreads
    /\ hist = NoHistory
    /\ ctl = NoController

\* How a call of prepare_send_message ended, and the message as it left it
PrepareResult(prep) ==
    [call |-> "prepare_send_message", outcome |-> prep.w.exc,
     value |-> prep.w.ref, message |-> prep.message]

\* A call of FIXProtocol.prepare_send_message(message)
PrepareSend(message) ==
    LET Done(prep) ==
            /\ Becomes(prep.w)
            /\ results' = Append(results, PrepareResult(prep))
    IN /\ hist.ncalls < MaxPrepares
       /\ Done(prepare_send_message(World, message))
       /\ hist' = [hist EXCEPT !.ncalls = @ + 1,
                               !.before = [protocol |-> protocol, now |-> now,
                                           message |-> message]]
       /\ UNCHANGED <<kind, connected, open, wire, now, feed, test, loop,
                      lc_task, ctl>>

\* Time passes between the calls
PrepareTick ==
    /\ now < MaxPrepTime
    /\ now' = now + 1
    /\ UNCHANGED <<parser, receiver, kind, protocol, queue, calls, connected,
                   open, forwarded, wire, raised, feed, test, loop, lc_task,
                   results, hist, ctl>>

NextPrepare ==
    \/ \E message \in Prepared : PrepareSend(message)
    \/ PrepareTick

SpecPrepare == InitPrepare /\ [][NextPrepare]_vars

\* The tag is absent from the message, or its value is the empty string
AbsentOrEmpty(message, tag) ==
    \A i \in 1..Len(message) :
        message[i].tag = tag => message[i].k = "s" /\ message[i].s = <<>>

\* The places of required whose tag, other than 9 and 10, the message lacks
Lacking(message, required) ==
    {i \in 1..Len(required) :
        required[i] \notin {9, 10} /\ AbsentOrEmpty(message, required[i])}

\* The message the last call left has the three stamps of a call made with
\* the session and the clock as before was, and is otherwise as it was
\* handed over
Stamped(before, message) ==
    /\ {8, 34, 52} \subseteq Tags(message)
    /\ GetItem(message, 8) = Scalar(8, before.protocol.link_config.protocol_version)
    /\ GetItem(message, 34) = Scalar(34, Str(before.protocol.send_seqno + 1))
    /\ GetItem(message, 52) = Scalar(52, format_time(before.now))
    /\ Tags(message) = Tags(before.message) \cup {8, 34, 52}
    /\ \A tag \in Tags(before.message) \ {8, 34, 52} :
           GetItem(message, tag) = GetItem(before.message, tag)

\* C28: prepare_send_message stamps the message with tag 8 = the link's
\* protocol_version, tag 34 = the new sequence number and tag 52 = the time
\* of the call, whether or not it then fails; it fails with FIXDataError(t)
\* for the first tag t of required_fields, other than 9 and 10, that the
\* stamped message lacks or holds empty, and with nothing else; 9 and 10
\* are not demanded; last_send_time becomes the time of the call when the
\* call succeeds and is left alone when it fails.
C28_StampThenCheck ==
    hist.ncalls >= 1 =>
        LET before == hist.before
            message == results[Len(results)].message
            required == before.protocol.link_config.required_fields
            lacking == Lacking(message, required)
        IN /\ Stamped(before, message)
           /\ protocol.send_seqno = before.protocol.send_seqno + 1
           /\ IF lacking = {}
              THEN /\ raised = NoException
                   /\ protocol.last_send_time = before.now
              ELSE /\ raised.exc = "FIXDataError"
                   /\ \E i \in lacking :
                         /\ \A j \in lacking : i <= j
                         /\ raised.ref = required[i]
                   /\ protocol.last_send_time = before.protocol.last_send_time

\* After a call that succeeded, a later call has failed for tag 35, the
\* third of the required tags, on a message that holds tags 9 and 10 empty
\* or not at all; last_send_time is the time of the first call
C28_Witness ==
    /\ hist.ncalls = 2
    /\ results[1].outcome = "none"
    /\ raised = [exc |-> "FIXDataError", ref |-> 35]
    /\ protocol.link_config.required_fields[3] = 35
    /\ AbsentOrEmpty(results[2].message, 9)
    /\ AbsentOrEmpty(results[2].message, 10)
    /\ protocol.last_send_time < hist.before.now

(***************************************************************************)
(* Encoding.  A message is encoded, and encoded again as the first call    *)
(* left it, with the filters of each call.                                 *)
(***************************************************************************)
MaxEncodes == 2     \* the most calls of to_binary on a message

SERVER == <<83, 69, 82, 86, 69, 82>>
CLIENT == <<67, 76, 73, 69, 78, 84>>
HELLO == <<104, 101, 108, 108, 111>>
Dashes == <<45, 45, 45>>

\* The messages of test_to_binary, test_to_binary_include,
\* test_to_binary_exclude and test_to_binary_group; one that stores 10
\* first and 8 after a group; the parser's nested groups and binary field
Encodables ==
    { FIXMessage(DefaultHeader,
        <<Scalar(8, FIX42), Scalar(9, Dashes), Scalar(35, <<65>>),
          Scalar(49, SERVER), Scalar(56, CLIENT), Scalar(34, <<49, 55, 55>>),
          Scalar(52, format_time(3)), Scalar(98, <<48>>),
          Scalar(108, <<51, 48>>), Scalar(10, Dashes)>>),
      FIXMessage(DefaultHeader,
        <<Scalar(8, FIX42), Scalar(9, Dashes), Scalar(35, <<65>>),
          Scalar(49, SERVER), Scalar(56, CLIENT), Scalar(177, HELLO)>>),
      FIXMessage(DefaultHeader,
        <<Scalar(8, FIX42), Scalar(9, Dashes), Scalar(35, <<65>>),
          Scalar(49, SERVER), Scalar(56, CLIENT), Scalar(99, <<88>>),
          Scalar(177, HELLO)>>),
      FIXMessage(<<8, 9>>,
        <<Scalar(8, FIX42), Scalar(9, Dashes),
          GroupList(100, << <<Scalar(110, <<50>>),
                              Scalar(111, <<97, 98, 99, 100>>)>> >>)>>),
      FIXMessage(<<>>,
        <<Scalar(10, Dashes), Scalar(35, <<65>>), Scalar(9, <<55>>),
          GroupList(100, << <<Scalar(101, <<97>>)>>, <<Scalar(101, <<98>>)>> >>),
          Scalar(8, FIX42), Scalar(177, HELLO)>>),
      MsgNested,
      MsgBinary }

\* The include and exclude arguments of to_binary; include = {} is a call
\* without include
Filters ==
    { [include |-> {}, exclude |-> {}],
      [include |-> {8, 9, 35, 177}, exclude |-> {}],
      [include |-> {}, exclude |-> {35, 177}],
      [include |-> {35, 100}, exclude |-> {35}],
      [include |-> {}, exclude |-> {8, 9, 10}],
      [include |-> {10, 100, 177}, exclude |-> {}] }

InitEncode ==
    /\ \E m \in Encodables : test = [Idle EXCEPT !.message = m]
    /\ loop = Idle
    /\ lc_task = NoTimer
    /\ results = <<>>
    /\ parser = NewParser(SessionParserConfig)
    /\ receiver = NewReceiver
    /\ kind = "mock"
    /\ protocol = NewProtocol(TestLinkConfig(0), 0)
    /\ queue = NewQueue
    /\ calls = <<>>
    /\ connected = FALSE
    /\ open = FALSE
    /\ forwarded = <<>>
    /\ wire = <<>>
    /\ now = 0
    /\ raised = NoException
    /\ feed = NoFeed
    /\ hist = NoHistory
    /\ ctl = NoController

\* message.to_binary(include=..., exclude=...): the bytes returned are kept,
\* the message is left with its tags 9 and 10 updated
ToBinary(f) ==
    LET Done(bin) ==
            /\ results' = Append(results, [call |-> "to_binary", data |-> bin.data])
            /\ test' = [test EXCEPT !.message = bin.msg]
    IN /\ hist.ncalls < MaxEncodes
       /\ Done(to_binary(test.message, f.include, f.exclude))
       /\ hist' = [hist EXCEPT !.ncalls = @ + 1,
                               !.before = [message |-> test.message,
                                           include |-> f.include,
                                           exclude |-> f.exclude]]
       /\ UNCHANGED <<parser, receiver, kind, protocol, queue, calls, connected,
                      open, forwarded, wire, now, raised, feed, loop, lc_task,
                      ctl>>

NextEncode == \E f \in Filters : ToBinary(f)

SpecEncode == InitEncode /\ [][NextEncode]_vars

\* A field on the wire: tag and value
Pair(tag, value) == [tag |-> tag, value |-> value]

RECURSIVE Flat(_), FlatAll(_)
\* The fields an entry stands for on the wire, in order: itself, or its lead
\* tag with the number of its sub-messages and then what the entries of each
\* sub-message stand for
Flat(e) ==
    IF e.k = "s" THEN <<Pair(e.tag, e.s)>>
    ELSE <<Pair(e.tag, Str(Len(e.g)))>>
            \o FlatAll([i \in 1..Len(e.g) |-> FlatAll([j \in 1..Len(e.g[i]) |-> Flat(e.g[i][j])])])
\* The concatenation of a sequence of sequences
FlatAll(ss) ==
    IF Len(ss) = 0 THEN <<>> ELSE ss[1] \o FlatAll(Tail(ss))

\* The entries of the message that make its body under the filters, as their
\* places in the message
Passing(before) ==
    {i \in 1..Len(before.message) :
        /\ before.message[i].tag \notin {8, 9, 10}
        /\ before.include # {} => before.message[i].tag \in before.include
        /\ before.message[i].tag \notin before.exclude}

\* The fields of the body, in the order of the message
BodyPairs(before) ==
    FlatAll([i \in 1..Len(before.message) |->
                IF i \in Passing(before) THEN Flat(before.message[i]) ELSE <<>>])

\* tag=value| of every field, one after the other
OnWire(pairs) ==
    FlatAll([i \in 1..Len(pairs) |->
                Str(pairs[i].tag) \o <<EQUALS>> \o pairs[i].value \o <<SOH>>])

RECURSIVE SumOfBytes(_)
SumOfBytes(data) ==
    IF Len(data) = 0 THEN 0 ELSE Head(data) + SumOfBytes(Tail(data))

\* Three decimal digits of a number below 1000
ThreeDigits(n) ==
    <<48 + (n \div 100), 48 + ((n \div 10) % 10), 48 + (n % 10)>>

\* C29: to_binary emits 8=<version>| 9=<n>| B 10=<ccc>|, where B is the
\* fields other than 8, 9, 10 that pass the filters, in the order of the
\* message, a group as its lead tag with the number of sub-messages and
\* then the fields of each sub-message; n is the length of B in decimal;
\* ccc is the sum of all bytes before tag 10, modulo 256, in three digits;
\* this whatever the places of 8, 9 and 10 in the message.
C29_ToBinaryLayout ==
    hist.ncalls >= 1 =>
        LET before == hist.before
            B == OnWire(BodyPairs(before))
            front == OnWire(<<Pair(8, GetItem(before.message, 8).s),
                              Pair(9, Str(Len(B)))>>) \o B
        IN results[Len(results)].data =
              front \o OnWire(<<Pair(10, ThreeDigits(SumOfBytes(front) % 256))>>)

\* A message that stores tag 10 first and tag 8 after a group of two
\* sub-messages has been encoded with a filter that drops one of its fields
C29_Witness ==
    /\ hist.ncalls >= 1
    /\ hist.before.message[1].tag = 10
    /\ hist.before.exclude = {35, 177}
    /\ Len(BodyPairs(hist.before)) = 3
    /\ SumOfBytes(results[Len(results)].data) >= 256

(***************************************************************************)
(* The parser after it has handed a message over                           *)
(***************************************************************************)
\* The parser is as reset() leaves it: not parsing, a fresh message, the
\* tallies zero, no binary field pending, no level
AsReset(p) ==
    /\ ~p.is_parsing
    /\ p.message = FIXMessage(p.cfg.header_fields, <<>>)
    /\ p.checksum = 0
    /\ p.message_length = 0
    /\ p.binary_length = -1
    /\ p.level_stack = <<>>

\* C31: after the parser has handed a completed message to the session's
\* on_message_received it is reset, whether the callback returned or raised
\* (a FIXDataError for a bad version, length or checksum, or a missing tag).
\* Every chunk of the peer ends with the tag 10 of a message, so the parser
\* is reset after every call of dataReceived.
C31_ResetAfterDelivery ==
    hist.nrecv >= 1 => AsReset(parser)

(***************************************************************************)
(* The parser's tally of the body length                                   *)
(***************************************************************************)
\* The last call parsed one field of a message that had begun, no binary
\* length tag, and that was all it had
TalliedField ==
    /\ FieldParsed
    /\ OnlyField
    /\ FirstField.exc = "none"
    /\ hist.before.parser.is_parsing
    /\ FirstField.tag_id \notin parser.cfg.binary_fields \cup {8}

\* The tally after the field of the last call
TallyAfter ==
    hist.before.parser.message_length
        + (IF FirstField.tag_id \in {9, 10} THEN 0 ELSE Len(Pending))

\* The stream of the case is one well-formed message whose body is
\* max_length bytes long, and all of it has been fed
ExactFed ==
    /\ feed.rest = <<>>
    /\ feed.case.msgs = <<MsgExact>>
    /\ feed.case.stream = Encode(MsgExact)

\* C32: a field other than 8, 9, 10 adds its length and one to the tally;
\* the field is reported as a FIXLengthTooLongError, the parser reset and
\* its buffer flushed, exactly when the tally has become greater than
\* max_length; a message whose body is max_length bytes long is delivered;
\* between calls the tally of a parser within a message is at most
\* max_length.
C32_TallyAndLimit ==
    /\ TalliedField =>
           /\ Reported("FIXLengthTooLongError") <=> TallyAfter > parser.cfg.max_length
           /\ Reported("FIXLengthTooLongError") => parser = NewParser(parser.cfg)
           /\ receiver = hist.before.receiver /\ FirstField.tag_id # 10 =>
                  parser.message_length = TallyAfter
    /\ ExactFed =>
           /\ receiver.errors = <<>>
           /\ Len(receiver.log) = 1
           /\ SameFields(Body(receiver.log[1].message), Body(MsgExact))
    /\ parser.is_parsing => parser.message_length <= parser.cfg.max_length

(***************************************************************************)
(* A lead tag within a group                                               *)
(***************************************************************************)
\* The last call parsed the lead tag of a group, and nothing else, while a
\* level was active
LeadParsed ==
    /\ FieldParsed
    /\ OnlyField
    /\ FirstField.exc = "none"
    /\ hist.before.parser.is_parsing
    /\ hist.before.parser.level_stack # <<>>
    /\ FirstField.tag_id \in DOMAIN parser.cfg.group_fields
    /\ receiver = hist.before.receiver
    /\ feed.escaped = {}

\* The level below the innermost one, if there is one, has the innermost
\* one's lead tag as a member
NestedWhereMember(stack, group_fields) ==
    Len(stack) >= 2 =>
        stack[Len(stack)].tag_id \in group_fields[stack[Len(stack) - 1].tag_id]

\* C33: a lead tag opens a level within the innermost level only when it
\* is a member of that level; a lead tag that is no member closes levels
\* first, and its own level is opened within the level that has it as a
\* member, or in the message when none has: the message delivered holds
\* the second of two groups beside the first, not within it.
C33_LeadTagNestsOnlyAsMember ==
    /\ LeadParsed =>
           /\ Top(parser.level_stack) = Level(FirstField.tag_id)
           /\ NestedWhereMember(parser.level_stack, parser.cfg.group_fields)
           /\ FirstField.tag_id \in
                  parser.cfg.group_fields[Top(hist.before.parser.level_stack).tag_id]
                => Pop(parser.level_stack) = hist.before.parser.level_stack
    /\ GroupsFed /\ feed.case.msgs = <<MsgSiblings>> =>
           /\ Len(receiver.log) = 1
           /\ Contains(receiver.log[1].message, 100)
           /\ ~Contains(GetItem(receiver.log[1].message, 200).g[1], 100)

(***************************************************************************)
(* A session with or without a TestRequest pending receives messages of    *)
(* the peer: Heartbeats that answer the TestRequest, Heartbeats that do    *)
(* not, other messages, and messages the session rejects.                  *)
(***************************************************************************)
MaxPendingInbound == 2      \* the most calls of dataReceived

\* The id of a TestRequest the session did not send
TR2 == <<84, 82, 50>>

\* The fields of the peer's messages after the comp ids: MsgSeqNum, and the
\* TestReqID if there is one
Numbered(seqno, id) ==
    <<Scalar(34, Str(seqno))>> \o (IF id = None THEN <<>> ELSE <<Scalar(112, id)>>)

\* A well-formed message of the peer, and one the session rejects
Sound(type, seqno, id) ==
    Chunk(Encode(PeerMessage(type, Numbered(seqno, id))),
          <<PeerMessage(type, Numbered(seqno, id))>>, {})
Unsound(version, type, seqno, id, dlen, dsum, wrong) ==
    Chunk(PeerBytes(version, PeerFields(type, Numbered(seqno, id)), dlen, dsum),
          <<PeerMessage(type, Numbered(seqno, id))>>, wrong)

PendingInbound ==
    { Sound(HEARTBEAT, 5, TR1),
      Sound(HEARTBEAT, 6, None),
      Sound(HEARTBEAT, 7, TR2),
      Sound(TEST_REQUEST, 8, TR1),
      Sound(<<68>>, 9, TR1),
      Sound(<<68>>, 3, None),
      Unsound(FIX42, HEARTBEAT, 5, TR1, 0, 1, {10}),
      Unsound(FIX42, TEST_REQUEST, 8, TR1, 1, 0, {9}),
      Unsound(FIXXX, <<68>>, 9, None, 0, 0, {8}),
      Unsound(FIX42, <<>>, 4, TR1, 0, 0, {35}) }

InitPending ==
    /\ parser = NewParser(SessionParserConfig)
    /\ receiver = NewReceiver
    /\ kind = "protocol"
    /\ \E filter \in BOOLEAN, p \in {-1, 2} :
         protocol = [SessionAged(1, 2, 2, p) EXCEPT !.filter_heartbeat = filter]
    /\ queue = NewQueue
    /\ calls = <<>>
    /\ connected = TRUE
    /\ open = TRUE
    /\ forwarded = <<>>
    /\ wire = <<>>
    /\ now = Epoch
    /\ raised = NoException
    /\ feed = NoFeed
    /\ NoThreads
    /\ hist = NoHistory
    /\ ctl = NoController

\* FIXTransport.dataReceived with a chunk of the peer; the chunk and what
\* the session, the transport and the queue were are noted
PendingReceive(d) ==
    LET Received(w) ==
            /\ Becomes(w)
            /\ open' = (w.exc = "none")
            /\ hist' = [hist EXCEPT
                          !.nrecv = @ + 1, !.arrived = d.keys,
                          !.last = [at |-> now, wrong |-> d.wrong],
                          !.before = [protocol |-> protocol, forwarded |-> forwarded,
                                      queue |-> queue, posted |-> hist.posted],
                          !.posted = @ \o SubSeq(w.calls, Len(calls) + 1,
                                                 Len(w.calls))]
    IN /\ open
       /\ hist.nrecv < MaxPendingInbound
       /\ Received(on_data_received(World, d.bytes))
       /\ UNCHANGED <<kind, connected, wire, now, feed, test, loop, lc_task,
                      results, ctl>>

NextPending ==
    \/ \E d \in PendingInbound : PendingReceive(d)
    \/ RunCall

SpecPending == InitPending /\ [][NextPending]_vars

\* The message of the last call of dataReceived, as the peer made it
LastMessage == hist.arrived[1]

\* The message is a Heartbeat that bears the id as its tag 112
AnswersPending(message, id) ==
    /\ \E i \in 1..Len(message) : message[i].tag = 35 /\ message[i].s = HEARTBEAT
    /\ \E i \in 1..Len(message) : message[i].tag = 112 /\ message[i].s = id

\* C34: the pending TestRequest, id and time, is cleared exactly when a
\* valid Heartbeat that bears the pending id as its tag 112 is received; a
\* Heartbeat without tag 112 or with another id, a message of another type,
\* and a message the session rejects leave both as they were.
C34_ClearedByMatchingHeartbeat ==
    hist.nrecv >= 1 =>
        IF /\ hist.last.wrong = {}
           /\ hist.before.protocol.testrequest_id # None
           /\ AnswersPending(LastMessage, hist.before.protocol.testrequest_id)
        THEN protocol.testrequest_id = None /\ protocol.testrequest_time = 0
        ELSE /\ protocol.testrequest_id = hist.before.protocol.testrequest_id
             /\ protocol.testrequest_time = hist.before.protocol.testrequest_time

\* A pending TestRequest has outlasted a Heartbeat with another id and has
\* then been cleared by the Heartbeat with its own
C34_Witness ==
    /\ hist.nrecv = 2
    /\ hist.before.protocol.testrequest_id = TR1
    /\ hist.before.protocol.received_seqno = 0
    /\ Len(forwarded) = 2
    /\ AnswersPending(forwarded[1], TR2)
    /\ protocol.testrequest_id = None

\* C35: after a valid message has been accepted, received_seqno is the
\* MsgSeqNum (tag 34) of that message.
C35_ReceivedSeqnoIsLast ==
    hist.nrecv >= 1 /\ hist.last.wrong = {} =>
        protocol.received_seqno = ToInt(GetItem(LastMessage, 34).s)

\* C40: a message the session rejects is rejected with FIXDataError and
\* changes nothing of the session: last_received_time, the pending
\* TestRequest, send_seqno and the rest are as before, nothing has been
\* posted for sending, nothing forwarded to the transport, nothing queued.
C40_RejectionChangesNothing ==
    hist.nrecv >= 1 /\ hist.last.wrong # {} =>
        /\ raised.exc = "FIXDataError"
        /\ protocol = hist.before.protocol
        /\ hist.posted = hist.before.posted
        /\ forwarded = hist.before.forwarded
        /\ queue = hist.before.queue

\* A Heartbeat that bears the pending id but a wrong checksum has been
\* rejected, after a valid TestRequest had been answered
C40_Witness ==
    /\ hist.nrecv = 2
    /\ hist.last.wrong = {10}
    /\ AnswersPending(LastMessage, protocol.testrequest_id)
    /\ Len(hist.posted) = 1
    /\ protocol.send_seqno = 1
    /\ protocol.last_received_time = Epoch

(***************************************************************************)
(* One TestRequest at a time                                               *)
(***************************************************************************)
\* C39: a timer tick that finds a TestRequest pending sends no TestRequest
\* and leaves the pending id and its time as they were.
C39_OneTestRequestOutstanding ==
    Ticked /\ hist.before.testrequest_id # None =>
        /\ \A i \in 1..Len(Outgoing) : msg_type(Outgoing[i].message) # TEST_REQUEST
        /\ protocol.testrequest_id = hist.before.testrequest_id
        /\ protocol.testrequest_time = hist.before.testrequest_time

(***************************************************************************)
(* The heartbeat timer switched on and off.  The test thread calls         *)
(* FIXTransport.start_heartbeat(True) and start_heartbeat(False); the      *)
(* event loop runs the posted start and the timer.                         *)
(***************************************************************************)
MaxSwitches == 3    \* the most calls of start_heartbeat

\* How a call of start_heartbeat ended
SwitchResult(enable, outcome) ==
    [call |-> "start_heartbeat", enable |-> enable, outcome |-> outcome]

\* start_heartbeat(True): a LoopingCall is made and its start posted, unless
\* self.lc_task is set
HeartbeatOn ==
    /\ test.pc = "idle"
    /\ hist.ncalls < MaxSwitches
    /\ lc_task' = [lc_task EXCEPT !.set = TRUE]
    /\ calls' = IF lc_task.set THEN calls
                ELSE Append(calls, [fn |-> "start", interval |-> protocol.heartbeat])
    /\ results' = Append(results, SwitchResult(TRUE, "returned"))
    /\ hist' = [hist EXCEPT !.ncalls = @ + 1]
    /\ UNCHANGED <<parser, receiver, kind, protocol, queue, connected, open,
                   forwarded, wire, now, raised, feed, test, loop, ctl>>

\* start_heartbeat(False): self.lc_task.stop() and self.lc_task = None,
\* unless self.lc_task is None.  LoopingCall.stop asserts that the
\* LoopingCall is running: the AssertionError leaves self.lc_task set.
HeartbeatOff ==
    LET Stopped ==
            /\ lc_task' = [lc_task EXCEPT !.set = FALSE, !.running = FALSE]
            /\ results' = Append(results, SwitchResult(FALSE, "returned"))
        Refused ==
            /\ lc_task' = lc_task
            /\ results' = Append(results, SwitchResult(FALSE, "AssertionError"))
    IN /\ test.pc = "idle"
       /\ hist.ncalls < MaxSwitches
       /\ IF lc_task.set /\ ~lc_task.running THEN Refused ELSE Stopped
       /\ hist' = [hist EXCEPT !.ncalls = @ + 1]
       /\ UNCHANGED <<parser, receiver, kind, protocol, queue, calls, connected,
                      open, forwarded, wire, now, raised, feed, test, loop, ctl>>

NextHeart ==
    \/ HeartbeatOn
    \/ HeartbeatOff
    \/ TimerFire
    \/ RunCall
    \/ Tick

SpecHeart == InitSend /\ [][NextHeart]_vars

\* The timers of the transport: the one that runs, and every start that is
\* posted
Timers ==
    (IF lc_task.running THEN 1 ELSE 0)
        + Len(SelectSeq(calls, LAMBDA c : c.fn = "start"))

\* The last call of start_heartbeat was start_heartbeat(False)
SwitchedOff ==
    /\ results # <<>>
    /\ ~results[Len(results)].enable

\* C36: a transport has at most one heartbeat timer, running or about to be
\* started; start_heartbeat(False) returns, and from then until the next
\* start_heartbeat(True) no timer runs and no start is posted, so that no
\* tick reaches the session, also when the event loop has not yet run the
\* start that was posted.
C36_OneTimerAndStopStops ==
    /\ Timers <= 1
    /\ SwitchedOff =>
           /\ results[Len(results)].outcome = "returned"
           /\ Timers = 0

(***************************************************************************)
(* What leaves the parser                                                  *)
(***************************************************************************)
\* C37: whatever the bytes and the configuration, an exception that leaves
\* on_data_received is a FIXParserError or a FIXLengthTooLongError that the
\* receiver was told of, and the parser has been reset and its buffer
\* flushed; a binary length that is no decimal number and a nested lead
\* tag that comes first in its group's sub-message are no exceptions to
\* this.
C37_OnlyParserErrorsLeave ==
    /\ feed.escaped \subseteq Caught
    /\ Called /\ raised.exc # "none" =>
           /\ raised.exc \in Caught
           /\ receiver.errors = Append(hist.before.receiver.errors, raised.exc)
           /\ parser = NewParser(parser.cfg)

(***************************************************************************)
(* Sending over a transport that is connected or not.  One thread calls    *)
(* FIXTransport.send_message; the event loop runs the writes it posts.     *)
(***************************************************************************)
MaxWireSends == 3   \* the most calls of send_message

InitWire ==
    /\ \E required \in RequiredChoices :
           protocol = NewProtocol(LinkConfig(FIX42, required, SENDER, TARGET,
                                             0, 0), 0)
    /\ connected \in BOOLEAN
    /\ open = connected
    /\ parser = NewParser(SessionParserConfig)
    /\ receiver = NewReceiver
    /\ kind = "protocol"
    /\ queue = NewQueue
    /\ calls = <<>>
    /\ forwarded = <<>>
    /\ wire = <<>>
    /\ now = 0
    /\ raised = NoException
    /\ feed = NoFeed
    /\ NoThreads
    /\ hist = NoHistory
    /\ ctl = NoController

\* A call of FIXTransport.send_message(message); the session as it was and
\* the writes posted are noted
WireSend(message) ==
    LET Done(w) ==
            /\ Becomes(w)
            /\ results' = Append(results, SendResult(w.exc, w.ref))
            /\ hist' = [hist EXCEPT
                          !.ncalls = @ + 1,
                          !.before = [protocol |-> protocol, now |-> now,
                                      posted |-> hist.posted],
                          !.posted = @ \o SubSeq(w.calls, Len(calls) + 1,
                                                 Len(w.calls))]
    IN /\ hist.ncalls < MaxWireSends
       /\ Done(send_message(World, message))
       /\ UNCHANGED <<kind, connected, open, wire, now, feed, test, loop,
                      lc_task, ctl>>

NextWire ==
    \/ \E message \in Prepared : WireSend(message)
    \/ RunCall
    \/ Tick

SpecWire == InitWire /\ [][NextWire]_vars

\* The last call of send_message posted no write
NothingPosted == hist.posted = hist.before.posted

\* C38: a call of send_message that posts no write, because a required
\* field is missing or because the transport is not connected, leaves
\* send_seqno and last_send_time as they were; the sequence numbers of the
\* messages written to the connection are consecutive.
C38_UnsentConsumesNothing ==
    /\ hist.ncalls >= 1 /\ NothingPosted =>
           /\ protocol.send_seqno = hist.before.protocol.send_seqno
           /\ protocol.last_send_time = hist.before.protocol.last_send_time
    /\ \A i \in 1..(Len(wire) - 1) :
           SeqnoOf(wire[i + 1].message) = SeqnoOf(wire[i].message) + 1

Spec == SpecParser
====
